---- MODULE Spec2Model ----
(***************************************************************************)
(* TIFORT-CORE valuation and compliance engine.                            *)
(*                                                                         *)
(* calculateFairMarketValue and its helpers (src/lib/google-sheets.ts) and *)
(* performComplianceAudit and its four checks (src/unnamed/part_002) are   *)
(* pure functions; each is an operator here and is applied by one action   *)
(* to inputs that Init draws from bounded sets.                            *)
(*                                                                         *)
(* Number representation                                                   *)
(*   money            integer MAD; every price is a multiple of 10,000 so  *)
(*                    that the percentages below are exact                 *)
(*   impact_percent   hundredths of a percent (-1500 is -15%), the         *)
(*                    resolution of Math.round(x * 100 * 100) / 100        *)
(*   totalBonus       millionths (75000 is 0.075)                          *)
(*   absent number    0 where the code tests truthiness, Null where the    *)
(*                    code tests !== null                                  *)
(*   seismic_chaining "true" | "false" | "null"                            *)
(*   dates            integer ticks, one tick = one year, NoDate if absent *)
(***************************************************************************)
EXTENDS Integers, Sequences, FiniteSets, TLC

VARIABLES property, infrastructurePoints, documents, params, now,
          result, audit, pc,
          potential,
          properties, minAlphaPercent, opportunities,
          listing, forensicPrice, marketPrice, marketGap, gapAnalysis,
          listings, getForensicPrice, cursor, gaps, errors, batchResult,
          vnaArgs, vnaCheck,
          secondAudit, secondResult,
          infraBonus,
          clock, sheet, cache, readers, writer,
          scraped, unique,
          completeness

\* arguments and results of the valuation and of the compliance audit
engineVars == <<property, infrastructurePoints, documents, params, now,
                result, audit>>

\* result of calculateZoningPotential
zoningVars == <<potential>>

\* arguments and result of findAlphaOpportunities
alphaVars == <<properties, minAlphaPercent, opportunities>>

\* arguments and results of calculateMarketGap and analyzeGap
gapVars == <<listing, forensicPrice, marketPrice, marketGap, gapAnalysis>>

\* arguments, locals and result of processBatch
batchVars == <<listings, getForensicPrice, cursor, gaps, errors, batchResult>>

\* argument and result of validateVNA
vnaVars == <<vnaArgs, vnaCheck>>

\* results of a second call with the same arguments
repeatVars == <<secondAudit, secondResult>>

\* result of calculateInfrastructureBonus
infraVars == <<infraBonus>>

\* the sheets connector: clock, spreadsheet contents, cache, callers
cacheVars == <<clock, sheet, cache, readers, writer>>

\* deduplication: the scraped listings and the listings kept
dedupVars == <<scraped, unique>>

\* document completeness: the result of checkDocumentCompleteness
completenessVars == <<completeness>>

vars == <<engineVars, pc, zoningVars, alphaVars, gapVars, batchVars,
         vnaVars, repeatVars, infraVars, cacheVars, dedupVars,
         completenessVars>>

(***************************************************************************)
(* Bounds of the model                                                     *)
(***************************************************************************)
MaxPoints == 1
MaxDocs == 2
MaxProps == 3
MaxListings == 3
MaxNow == 8
MaxInfra == 2
MaxClock == 120
MaxCalls == 2
MaxWrites == 1
MaxScraped == 3
MaxPresent == 5

(***************************************************************************)
(* Representation constants                                                *)
(***************************************************************************)
Null == -1
NoDate == -1
PctScale == 100

\* cache lifetime in seconds
CACHE_TTL == 60

Pct(n) == n * PctScale

(***************************************************************************)
(* Generic helpers                                                         *)
(***************************************************************************)
Max(a, b) == IF a >= b THEN a ELSE b

Abs(x) == IF x < 0 THEN -x ELSE x

\* Math.round(n / d) for d > 0: the nearest integer, halves towards +infinity
MathRound(n, d) == (2 * n + d) \div (2 * d)

\* all sequences over S of length at most n
SeqUpTo(S, n) == UNION {[1..k -> S] : k \in 0..n}

RECURSIVE SumImpactValue(_)
SumImpactValue(adjs) ==
    IF adjs = <<>> THEN 0
    ELSE Head(adjs).impact_value + SumImpactValue(Tail(adjs))

(***************************************************************************)
(* Reference tables                                                        *)
(***************************************************************************)
\* weight of an infrastructure category in hundredths; 10 for unknown ones
INFRASTRUCTURE_WEIGHTS(category) ==
    CASE category = "tgv_station" -> 30
      [] category = "stadium" -> 25
      [] category = "highway" -> 15
      [] category = "airport" -> 20
      [] category = "industrial_zone" -> 10
      [] OTHER -> 10

\* String.prototype.toLowerCase on the neighborhood names of the model
toLowerCase(s) ==
    CASE s = "Medina" -> "medina"
      [] s = "Gueliz" -> "gueliz"
      [] OTHER -> s

\* price per m2 of a (lower-cased) neighborhood, the default tier otherwise
NEIGHBORHOOD_TIERS(neighborhood) ==
    CASE neighborhood = "hivernage" -> 25000
      [] neighborhood = "gueliz" -> 22000
      [] neighborhood = "mellah" -> 18000
      [] neighborhood = "palmeraie" -> 30000
      [] neighborhood = "medina" -> 15000
      [] neighborhood = "targa" -> 12000
      [] OTHER -> 10000

ZoningCodes == {"SD1", "GH2", "SA1", "S1", "ZI", "ZA"}

\* cos and ces in hundredths; looked up for the codes of ZoningCodes only
ZONING_MULTIPLIERS(code) ==
    CASE code = "SD1" -> [cos |-> 7, ces |-> 5, max_units |-> 1]
      [] code = "GH2" -> [cos |-> 40, ces |-> 35, max_units |-> 15]
      [] code = "SA1" -> [cos |-> 60, ces |-> 50, max_units |-> 25]
      [] code = "S1" -> [cos |-> 50, ces |-> 40, max_units |-> 20]
      [] code = "ZI" -> [cos |-> 70, ces |-> 60, max_units |-> 1]
      [] code = "ZA" -> [cos |-> 2, ces |-> 1, max_units |-> 1]

(***************************************************************************)
(* Valuation                                                               *)
(***************************************************************************)
\* truthiness of an optional number: neither absent nor 0
Truthy(x) == x # Null /\ x # 0

\* Math.round(n / d * 10^k) for d > 0, by long division so that no
\* intermediate exceeds 32 bits (d <= 100,000,000)
RECURSIVE RoundScaled(_, _, _)
RoundScaled(n, d, k) ==
    IF k = 0 THEN MathRound(n, d)
    ELSE (n \div d) * (10 ^ k) + RoundScaled((n % d) * 10, d, k - 1)

\* Math.round(n / d * 100 * 100): the percentage n / d in hundredths
PercentRound2(n, d) == RoundScaled(n, d, 4)

Adjustment(factor, percent, value) ==
    [factor |-> factor, impact_percent |-> percent, impact_value |-> value]

\* base * percent / 100 for a percent in hundredths; exact for the prices of
\* the model, and ordered so that no intermediate exceeds 32 bits
PercentOf(base, percent) == (base \div 10000) * percent

estimateBaseValue(p) ==
    LET neighborhood == IF p.neighborhood = "" THEN "default"
                        ELSE toLowerCase(p.neighborhood)
        pricePerM2 == NEIGHBORHOOD_TIERS(neighborhood)
        size == IF p.built_size_m2 # 0 THEN p.built_size_m2
                ELSE IF p.terrain_size_m2 # 0 THEN p.terrain_size_m2
                ELSE 100
    IN  size * pricePerM2

\* variant: the compliance bonus is tested before the seismic gap
calculateSeismicPenalty_bonusFirst(p) ==
    LET baseValue == p.market_price
        shs == p.structural_health_score
        yearBuilt == p.year_built
        hasSeismicChaining == IF shs.present THEN shs.seismic_chaining
                              ELSE "undefined"
    IN  IF p.asset_type = "Land"
        THEN Adjustment("seismic_compliance", 0, 0)
        ELSE IF shs.present /\ shs.rps_2026_compliant
        THEN Adjustment("seismic_compliance", Pct(3), PercentOf(baseValue, Pct(3)))
        ELSE IF yearBuilt # 0 /\ yearBuilt < 2023 /\ hasSeismicChaining # "true"
        THEN Adjustment("seismic_compliance", Pct(-15), PercentOf(baseValue, Pct(-15)))
        ELSE Adjustment("seismic_compliance", 0, 0)

calculateSeismicPenalty(p) ==
    LET baseValue == p.market_price
        shs == p.structural_health_score
        yearBuilt == p.year_built
        hasSeismicChaining == IF shs.present THEN shs.seismic_chaining
                              ELSE "undefined"
    IN  IF p.asset_type = "Land"
        THEN Adjustment("seismic_compliance", 0, 0)
        ELSE IF yearBuilt # 0 /\ yearBuilt < 2023 /\ hasSeismicChaining # "true"
        THEN Adjustment("seismic_compliance", Pct(-15), PercentOf(baseValue, Pct(-15)))
        ELSE IF shs.present /\ shs.rps_2026_compliant
        THEN Adjustment("seismic_compliance", Pct(3), PercentOf(baseValue, Pct(3)))
        ELSE Adjustment("seismic_compliance", 0, 0)

\* variant: the asset type is not tested
calculateStructuralAdjustments_noLandCheck(p) ==
    LET baseValue == p.market_price
        shs == p.structural_health_score
        humidity ==
            IF shs.humidity_score # Null /\ shs.humidity_score > 7
            THEN <<Adjustment("humidity", Pct(-8), PercentOf(baseValue, Pct(-8)))>>
            ELSE <<>>
        roof ==
            IF shs.roof_life_years # Null /\ shs.roof_life_years < 5
            THEN <<Adjustment("roof_condition", Pct(-5), PercentOf(baseValue, Pct(-5)))>>
            ELSE <<>>
        foundation ==
            IF shs.foundation_depth_cm # Null /\ shs.foundation_depth_cm < 150
            THEN <<Adjustment("foundation", Pct(-6), PercentOf(baseValue, Pct(-6)))>>
            ELSE <<>>
    IN  IF ~shs.present
        THEN <<>>
        ELSE humidity \o roof \o foundation

\* variant: the roof life is tested for truthiness, so 0 years counts as absent
calculateStructuralAdjustments_roofTruthy(p) ==
    LET baseValue == p.market_price
        shs == p.structural_health_score
        humidity ==
            IF shs.humidity_score # Null /\ shs.humidity_score > 7
            THEN <<Adjustment("humidity", Pct(-8), PercentOf(baseValue, Pct(-8)))>>
            ELSE <<>>
        roof ==
            IF shs.roof_life_years # Null /\ shs.roof_life_years # 0
               /\ shs.roof_life_years < 5
            THEN <<Adjustment("roof_condition", Pct(-5), PercentOf(baseValue, Pct(-5)))>>
            ELSE <<>>
        foundation ==
            IF shs.foundation_depth_cm # Null /\ shs.foundation_depth_cm < 150
            THEN <<Adjustment("foundation", Pct(-6), PercentOf(baseValue, Pct(-6)))>>
            ELSE <<>>
    IN  IF ~shs.present \/ p.asset_type = "Land"
        THEN <<>>
        ELSE humidity \o roof \o foundation

calculateStructuralAdjustments(p) ==
    LET baseValue == p.market_price
        shs == p.structural_health_score
        humidity ==
            IF shs.humidity_score # Null /\ shs.humidity_score > 7
            THEN <<Adjustment("humidity", Pct(-8), PercentOf(baseValue, Pct(-8)))>>
            ELSE <<>>
        roof ==
            IF shs.roof_life_years # Null /\ shs.roof_life_years < 5
            THEN <<Adjustment("roof_condition", Pct(-5), PercentOf(baseValue, Pct(-5)))>>
            ELSE <<>>
        foundation ==
            IF shs.foundation_depth_cm # Null /\ shs.foundation_depth_cm < 150
            THEN <<Adjustment("foundation", Pct(-6), PercentOf(baseValue, Pct(-6)))>>
            ELSE <<>>
    IN  IF ~shs.present \/ p.asset_type = "Land"
        THEN <<>>
        ELSE humidity \o roof \o foundation

calculateComplianceAdjustments(p) ==
    LET baseValue == p.market_price
        vnaCost == 200000
        bill ==
            IF p.bill_34_21_flagged
            THEN <<Adjustment("bill_34_21", Pct(-20), PercentOf(baseValue, Pct(-20)))>>
            ELSE <<>>
        tax ==
            IF ~p.tax_gate_passed
            THEN <<Adjustment("tax_gate", Pct(-10), PercentOf(baseValue, Pct(-10)))>>
            ELSE <<>>
        vna ==
            IF p.vna_required
            THEN <<Adjustment("vna_requirement", Pct(-5),
                              -(vnaCost + PercentOf(baseValue, Pct(2))))>>
            ELSE <<>>
    IN  bill \o tax \o vna

\* Haversine distance of two points on one meridian, whose positions are
\* given in km along it
calculateDistance(a, b) == Abs(a - b)

\* variant: the bonus does not fade with the distance
PointBonus_noDistanceFactor(p, point) ==
    LET distance == calculateDistance(p.gps_km, point.gps_km)
        weight == INFRASTRUCTURE_WEIGHTS(point.category)
        multiplier == (IF point.value_multiplier # 0 THEN point.value_multiplier
                       ELSE 110) - 100
    IN  IF point.impact_radius_km # 0 /\ distance <= point.impact_radius_km
        THEN multiplier * weight * 100
        ELSE 0

\* bonus of one point in millionths, 0 when the point is out of its radius
PointBonus(p, point) ==
    LET distance == calculateDistance(p.gps_km, point.gps_km)
        weight == INFRASTRUCTURE_WEIGHTS(point.category)
        multiplier == (IF point.value_multiplier # 0 THEN point.value_multiplier
                       ELSE 110) - 100
    IN  IF point.impact_radius_km # 0 /\ distance <= point.impact_radius_km
        THEN (multiplier * weight * 100 * (point.impact_radius_km - distance))
                 \div point.impact_radius_km
        ELSE 0

RECURSIVE TotalBonus(_, _)
TotalBonus(p, points) ==
    IF points = <<>> THEN 0
    ELSE PointBonus(p, Head(points)) + TotalBonus(p, Tail(points))

calculateInfrastructureBonus(p, points) ==
    LET baseValue == p.market_price
        totalBonus == TotalBonus(p, points)
    IN  Adjustment("infrastructure_proximity",
                   MathRound(totalBonus, 100),
                   ((baseValue \div 10000) * totalBonus) \div 100)

\* price per m2 of the property's neighborhood: lower-cased, "default" when
\* absent, the default tier when not in the table
\* variant: an unrecognized neighborhood has no price
NeighborhoodPrice_noDefault(p) ==
    IF p.neighborhood = "" THEN NEIGHBORHOOD_TIERS("default")
    ELSE IF toLowerCase(p.neighborhood)
              \in {"hivernage", "gueliz", "mellah", "palmeraie", "medina",
                   "targa", "default"}
    THEN NEIGHBORHOOD_TIERS(toLowerCase(p.neighborhood))
    ELSE 0

NeighborhoodPrice(p) ==
    NEIGHBORHOOD_TIERS(IF p.neighborhood = "" THEN "default"
                       ELSE toLowerCase(p.neighborhood))

\* variant: a missing terrain size is not tested
calculateZoningPotential_noTerrainCheck(p) ==
    IF p.zoning_code = ""
    THEN p.market_price
    ELSE IF p.zoning_code \notin ZoningCodes
    THEN p.market_price
    ELSE MathRound(p.terrain_size_m2 * ZONING_MULTIPLIERS(p.zoning_code).cos
                       * (NeighborhoodPrice(p) \div 1000) * 70,
                   10)

\* terrain x cos x price per m2 x 0.70, rounded; the market price when the
\* terrain size or the zoning code is missing or the code is not in the table
\* (maxUnits is computed by the code and never used)
calculateZoningPotential(p) ==
    IF p.terrain_size_m2 = 0 \/ p.zoning_code = ""
    THEN p.market_price
    ELSE IF p.zoning_code \notin ZoningCodes
    THEN p.market_price
    ELSE MathRound(p.terrain_size_m2 * ZONING_MULTIPLIERS(p.zoning_code).cos
                       * (NeighborhoodPrice(p) \div 1000) * 70,
                   10)

calculateResilienceScore(p, points) ==
    LET stadium == IF Truthy(p.distance_grand_stade) /\ p.distance_grand_stade < 5
                   THEN 25
                   ELSE IF Truthy(p.distance_grand_stade) /\ p.distance_grand_stade < 10
                   THEN 15 ELSE 0
        tgv == IF Truthy(p.distance_tgv_station) /\ p.distance_tgv_station < 3
               THEN 15 ELSE 0
        airport == IF Truthy(p.distance_airport) /\ p.distance_airport < 8
                   THEN 10 ELSE 0
        medina == IF p.neighborhood # "" /\ toLowerCase(p.neighborhood) = "medina"
                  THEN -10 ELSE 0
        multiUnit == IF p.zoning_code = "GH2" \/ p.zoning_code = "SA1"
                     THEN 10 ELSE 0
        score == 50 + stadium + tgv + airport + medina + multiUnit
    IN  IF score > 100 THEN 100 ELSE Max(0, score)

RECURSIVE TotalNegativeImpact(_)
TotalNegativeImpact(adjs) ==
    IF adjs = <<>> THEN 0
    ELSE (IF Head(adjs).impact_percent < 0 THEN Abs(Head(adjs).impact_percent) ELSE 0)
         + TotalNegativeImpact(Tail(adjs))

\* variant: the tax gate test lost its negation
riskScore_taxInverted(p, adjustments) ==
    (IF p.bill_34_21_flagged THEN Pct(30) ELSE 0)
    + (IF p.tax_gate_passed THEN Pct(20) ELSE 0)
    + (IF p.vna_required THEN Pct(10) ELSE 0)
    + TotalNegativeImpact(adjustments)
    - (IF p.is_verified THEN Pct(15) ELSE 0)

riskScore(p, adjustments) ==
    (IF p.bill_34_21_flagged THEN Pct(30) ELSE 0)
    + (IF ~p.tax_gate_passed THEN Pct(20) ELSE 0)
    + (IF p.vna_required THEN Pct(10) ELSE 0)
    + TotalNegativeImpact(adjustments)
    - (IF p.is_verified THEN Pct(15) ELSE 0)

\* variant: the thresholds are exclusive
calculateRiskGrade_exclusive(p, adjustments) ==
    LET score == riskScore(p, adjustments)
    IN  IF score < Pct(10) THEN "A"
        ELSE IF score < Pct(20) THEN "B"
        ELSE IF score < Pct(35) THEN "C"
        ELSE IF score < Pct(50) THEN "D"
        ELSE IF score < Pct(70) THEN "E"
        ELSE "F"

calculateRiskGrade(p, adjustments) ==
    LET score == riskScore(p, adjustments)
    IN  IF score <= Pct(10) THEN "A"
        ELSE IF score <= Pct(20) THEN "B"
        ELSE IF score <= Pct(35) THEN "C"
        ELSE IF score <= Pct(50) THEN "D"
        ELSE IF score <= Pct(70) THEN "E"
        ELSE "F"

\* variant: the asset type is not tested
HasZoningInputs_anyAsset(p) ==
    p.zoning_code # "" /\ p.terrain_size_m2 # 0

\* the guard of the zoning potential in calculateFairMarketValue
HasZoningInputs(p) ==
    p.asset_type = "Land" /\ p.zoning_code # "" /\ p.terrain_size_m2 # 0

\* variant: the forensic value is not floored at zero
calculateFairMarketValue_noFloor(p, points) ==
    LET baseValue == IF p.market_price # 0 THEN p.market_price
                     ELSE estimateBaseValue(p)
        seismicAdjustment == calculateSeismicPenalty(p)
        seismic == IF seismicAdjustment.impact_percent # 0
                   THEN <<seismicAdjustment>> ELSE <<>>
        structuralAdjustments == calculateStructuralAdjustments(p)
        complianceAdjustments == calculateComplianceAdjustments(p)
        infraAdjustment == calculateInfrastructureBonus(p, points)
        infra == IF Len(points) > 0 /\ infraAdjustment.impact_percent # 0
                 THEN <<infraAdjustment>> ELSE <<>>
        adjustments == seismic \o structuralAdjustments
                       \o complianceAdjustments \o infra
        forensicValue == baseValue + SumImpactValue(adjustments)
        hasZoning == HasZoningInputs(p)
        zoningPotentialValue == calculateZoningPotential(p)
        alphaBase == IF p.market_price # 0 THEN p.market_price ELSE forensicValue
        alphaValue == zoningPotentialValue - alphaBase
    IN  [base_value |-> baseValue,
         forensic_value |-> forensicValue,
         adjustments |-> adjustments,
         zoning_potential_value |-> IF hasZoning THEN zoningPotentialValue ELSE Null,
         alpha_value |-> IF hasZoning THEN alphaValue ELSE 0,
         alpha_percent |-> IF hasZoning THEN PercentRound2(alphaValue, alphaBase)
                           ELSE 0,
         risk_grade |-> calculateRiskGrade(p, adjustments),
         resilience_score |-> IF p.asset_type = "Apartment"
                              THEN calculateResilienceScore(p, points) ELSE Null]

\* the result without confidence_score, which no property below reads; the
\* inputs of the model keep the alpha denominator positive
calculateFairMarketValue(p, points) ==
    LET baseValue == IF p.market_price # 0 THEN p.market_price
                     ELSE estimateBaseValue(p)
        seismicAdjustment == calculateSeismicPenalty(p)
        seismic == IF seismicAdjustment.impact_percent # 0
                   THEN <<seismicAdjustment>> ELSE <<>>
        structuralAdjustments == calculateStructuralAdjustments(p)
        complianceAdjustments == calculateComplianceAdjustments(p)
        infraAdjustment == calculateInfrastructureBonus(p, points)
        infra == IF Len(points) > 0 /\ infraAdjustment.impact_percent # 0
                 THEN <<infraAdjustment>> ELSE <<>>
        adjustments == seismic \o structuralAdjustments
                       \o complianceAdjustments \o infra
        forensicValue == baseValue + SumImpactValue(adjustments)
        hasZoning == HasZoningInputs(p)
        zoningPotentialValue == calculateZoningPotential(p)
        alphaBase == IF p.market_price # 0 THEN p.market_price ELSE forensicValue
        alphaValue == zoningPotentialValue - alphaBase
    IN  [base_value |-> baseValue,
         forensic_value |-> Max(forensicValue, 0),
         adjustments |-> adjustments,
         zoning_potential_value |-> IF hasZoning THEN zoningPotentialValue ELSE Null,
         alpha_value |-> IF hasZoning THEN alphaValue ELSE 0,
         alpha_percent |-> IF hasZoning THEN PercentRound2(alphaValue, alphaBase)
                           ELSE 0,
         risk_grade |-> calculateRiskGrade(p, adjustments),
         resilience_score |-> IF p.asset_type = "Apartment"
                              THEN calculateResilienceScore(p, points) ELSE Null]

(***************************************************************************)
(* Opportunity ranking                                                     *)
(***************************************************************************)
\* Array.prototype.sort with the comparator b.key - a.key: descending by
\* key, stable; keys[i] is the key of seq[i]
SortDescending(seq, keys) ==
    LET n == Len(seq)
        Rank(i) == 1 + Cardinality({j \in 1..n :
                                       \/ keys[j] > keys[i]
                                       \/ (keys[j] = keys[i] /\ j < i)})
    IN  [k \in 1..n |-> seq[CHOOSE i \in 1..n : Rank(i) = k]]

\* the entry {...p, alpha_value, alpha_percent}; alpha_percent, which the
\* code leaves unrounded, is kept in ten-thousandths of a percent, exact for
\* the properties of the model
AlphaEntry(p) ==
    LET potentialValue == calculateZoningPotential(p)
        alphaValue == potentialValue - p.market_price
    IN  [property |-> p,
         alpha_value |-> alphaValue,
         alpha_percent |-> RoundScaled(alphaValue,
                                       IF p.market_price # 0 THEN p.market_price
                                       ELSE 1, 6)]

\* variant: the threshold itself does not qualify
findAlphaOpportunities_strict(props, min) ==
    LET threshold == IF min = Null THEN 20 ELSE min
        IsCandidate(p) == /\ p.asset_type = "Land"
                          /\ p.zoning_code # ""
                          /\ p.market_price # 0
        candidates == SelectSeq(props, IsCandidate)
        entries == [i \in 1..Len(candidates) |-> AlphaEntry(candidates[i])]
        Qualifies(e) == e.alpha_percent > threshold * 10000
        kept == SelectSeq(entries, Qualifies)
    IN  SortDescending(kept, [i \in 1..Len(kept) |-> kept[i].alpha_percent])

\* min = Null stands for an omitted minAlphaPercent (default 20)
findAlphaOpportunities(props, min) ==
    LET threshold == IF min = Null THEN 20 ELSE min
        IsCandidate(p) == /\ p.asset_type = "Land"
                          /\ p.zoning_code # ""
                          /\ p.market_price # 0
        candidates == SelectSeq(props, IsCandidate)
        entries == [i \in 1..Len(candidates) |-> AlphaEntry(candidates[i])]
        Qualifies(e) == e.alpha_percent >= threshold * 10000
        kept == SelectSeq(entries, Qualifies)
    IN  SortDescending(kept, [i \in 1..Len(kept) |-> kept[i].alpha_percent])

\* variant: a gap of exactly 10% is overpriced
calculateMarketGap_inclusive(forensic, market) ==
    LET gapValue == market - forensic
    IN  [gap_value |-> gapValue,
         gap_percent |-> PercentRound2(gapValue, forensic),
         verdict |-> IF gapValue * 100 >= 10 * forensic THEN "overpriced"
                     ELSE IF gapValue * 100 < (-10) * forensic THEN "underpriced"
                     ELSE "fair"]

\* the verdict is decided on the unrounded percentage gapValue / forensicPrice
\* * 100; the comparisons are written without the division, for
\* forensicPrice > 0
calculateMarketGap(forensic, market) ==
    LET gapValue == market - forensic
    IN  [gap_value |-> gapValue,
         gap_percent |-> PercentRound2(gapValue, forensic),
         verdict |-> IF gapValue * 100 > 10 * forensic THEN "overpriced"
                     ELSE IF gapValue * 100 < (-10) * forensic THEN "underpriced"
                     ELSE "fair"]

\* variant: a gap of exactly 30% is severely overpriced
GapTier_inclusive30(gapValue, forensic) ==
    IF gapValue * 100 >= 30 * forensic
    THEN [verdict |-> "severely_overpriced", opportunity_score |-> 10]
    ELSE IF gapValue * 100 > 10 * forensic
    THEN [verdict |-> "overpriced", opportunity_score |-> 30]
    ELSE IF gapValue * 100 >= (-10) * forensic
    THEN [verdict |-> "fair", opportunity_score |-> 50]
    ELSE IF gapValue * 100 >= (-25) * forensic
    THEN [verdict |-> "underpriced", opportunity_score |-> 75]
    ELSE [verdict |-> "severely_underpriced", opportunity_score |-> 95]

\* the tier of a gap, with its opportunity score, for forensicPrice > 0
GapTier(gapValue, forensic) ==
    IF gapValue * 100 > 30 * forensic
    THEN [verdict |-> "severely_overpriced", opportunity_score |-> 10]
    ELSE IF gapValue * 100 > 10 * forensic
    THEN [verdict |-> "overpriced", opportunity_score |-> 30]
    ELSE IF gapValue * 100 >= (-10) * forensic
    THEN [verdict |-> "fair", opportunity_score |-> 50]
    ELSE IF gapValue * 100 >= (-25) * forensic
    THEN [verdict |-> "underpriced", opportunity_score |-> 75]
    ELSE [verdict |-> "severely_underpriced", opportunity_score |-> 95]

\* asking_price is 0 when the listing has none
analyzeGap(l, forensic) ==
    LET askingPrice == l.asking_price
        gapValue == askingPrice - forensic
        tier == GapTier(gapValue, forensic)
    IN  [listing |-> l,
         forensic_price |-> forensic,
         gap_value |-> gapValue,
         gap_percent |-> PercentRound2(gapValue, forensic),
         verdict |-> tier.verdict,
         opportunity_score |-> tier.opportunity_score]

RECURSIVE SumPrices(_)
SumPrices(ls) ==
    IF ls = <<>> THEN 0 ELSE Head(ls).asking_price + SumPrices(Tail(ls))

\* the baseline of one asset type, <<>> for null; avg_price is price_sum /
\* sample_size; avg_price_per_m2 and calculated_at are left out
calculateMarketBaseline(ls, assetType) ==
    LET Priced(l) == l.asking_price > 0 /\ l.asset_type = assetType
        filtered == SelectSeq(ls, Priced)
        prices == {filtered[i].asking_price : i \in 1..Len(filtered)}
    IN  IF Len(filtered) = 0 THEN <<>>
        ELSE <<[asset_type |-> assetType,
                price_sum |-> SumPrices(filtered),
                min_price |-> CHOOSE x \in prices : \A y \in prices : x <= y,
                max_price |-> CHOOSE x \in prices : \A y \in prices : x >= y,
                sample_size |-> Len(filtered)]>>

\* Array.prototype.slice(0, n)
Slice(seq, n) == SubSeq(seq, 1, IF Len(seq) < n THEN Len(seq) ELSE n)

\* the tail of processBatch, after the loop over the listings
BatchSummary(ls, gapList, errorCount) ==
    LET IsOpportunity(g) == g.opportunity_score >= 70
        found == SelectSeq(gapList, IsOpportunity)
        sorted == SortDescending(found,
                      [i \in 1..Len(found) |-> found[i].opportunity_score])
        opps == Slice(sorted, 20)
    IN  [total_scraped |-> Len(ls),
         total_processed |-> Len(gapList),
         total_errors |-> errorCount,
         opportunities_found |-> Len(opps),
         baselines |-> calculateMarketBaseline(ls, "Apartment")
                       \o calculateMarketBaseline(ls, "Villa")
                       \o calculateMarketBaseline(ls, "Land"),
         top_opportunities |-> opps]

(***************************************************************************)
(* Sheets connector: the cache of the property list                        *)
(***************************************************************************)
\* The cache holds at most the entry of the key 'properties': <<>> or one
\* record [data, timestamp].  A property list is named by the version of the
\* spreadsheet it was read from (1, 2, ...); 0 names the empty list that
\* getProperties returns when the read fails.

\* variant: an entry of exactly CACHE_TTL seconds has expired
getCached_expiresAtTTL(c, t) ==
    IF c = <<>> THEN [hit |-> FALSE, data |-> 0, cache |-> c]
    ELSE IF t - c[1].timestamp >= CACHE_TTL
    THEN [hit |-> FALSE, data |-> 0, cache |-> <<>>]
    ELSE [hit |-> TRUE, data |-> c[1].data, cache |-> c]

\* the value found (hit) and the cache as getCached leaves it
getCached(c, t) ==
    IF c = <<>> THEN [hit |-> FALSE, data |-> 0, cache |-> c]
    ELSE IF t - c[1].timestamp > CACHE_TTL
    THEN [hit |-> FALSE, data |-> 0, cache |-> <<>>]
    ELSE [hit |-> TRUE, data |-> c[1].data, cache |-> c]

setCache(data, t) == <<[data |-> data, timestamp |-> t]>>

invalidateCache == <<>>

(***************************************************************************)
(* Scraper: deduplication                                                  *)
(***************************************************************************)
\* The Map `seen` is a sequence of [key, value] in insertion order; its keys
\* are the listing's URL and its similarity key (two strings in the source,
\* here two kinds of one record).
UrlKey(l) ==
    [kind |-> "url", url |-> l.source_url, price |-> 0, size |-> 0,
     neighborhood |-> ""]

\* `${asking_price}-${terrain_size_m2 || built_size_m2}-${neighborhood}`
SimilarityKey(l) ==
    [kind |-> "similarity", url |-> "", price |-> l.asking_price,
     size |-> IF l.terrain_size_m2 # 0 THEN l.terrain_size_m2
              ELSE l.built_size_m2,
     neighborhood |-> l.neighborhood]

MapHas(m, k) == \E i \in 1..Len(m) : m[i].key = k

MapGet(m, k) == m[CHOOSE i \in 1..Len(m) : m[i].key = k].value

\* Map.set: an existing key keeps its place
MapSet(m, k, v) ==
    IF MapHas(m, k)
    THEN [i \in 1..Len(m) |->
             IF m[i].key = k THEN [key |-> k, value |-> v] ELSE m[i]]
    ELSE Append(m, [key |-> k, value |-> v])

\* the loop over the listings, from listing i on
RECURSIVE SeenAfter(_, _, _)
SeenAfter(ls, i, seen) ==
    IF i > Len(ls) THEN seen
    ELSE LET l == ls[i]
         IN  IF MapHas(seen, UrlKey(l)) THEN SeenAfter(ls, i + 1, seen)
             ELSE IF \/ ~MapHas(seen, SimilarityKey(l))
                     \/ l.scraped_at > MapGet(seen, SimilarityKey(l)).scraped_at
             THEN SeenAfter(ls, i + 1,
                      MapSet(MapSet(seen, UrlKey(l), l), SimilarityKey(l), l))
             ELSE SeenAfter(ls, i + 1, seen)

\* Array.from(seen.values()).filter(first of each source_url)
RECURSIVE UniqueByUrl(_, _, _)
UniqueByUrl(entries, i, out) ==
    IF i > Len(entries) THEN out
    ELSE IF \E j \in 1..Len(out) :
                out[j].source_url = entries[i].value.source_url
    THEN UniqueByUrl(entries, i + 1, out)
    ELSE UniqueByUrl(entries, i + 1, Append(out, entries[i].value))

deduplicateListings(ls) == UniqueByUrl(SeenAfter(ls, 1, <<>>), 1, <<>>)

(***************************************************************************)
(* Compliance: document completeness                                       *)
(***************************************************************************)
REQUIRED_DOCUMENTS ==
    <<"certificat_propriete", "note_renseignement", "quitus_fiscal",
      "plan_cadastral">>

\* the keys of CONDITIONAL_DOCUMENTS in their order
ConditionalTypes == <<"certificat_conformite", "vna", "tnb_tax">>

\* CONDITIONAL_DOCUMENTS[type](p)
CONDITIONAL_DOCUMENTS(type, p) ==
    CASE type = "certificat_conformite" -> p.asset_type # "Land"
      [] type = "vna" -> p.vna_required
      [] type = "tnb_tax" -> p.asset_type = "Land"

SeqRange(s) == {s[i] : i \in 1..Len(s)}

checkDocumentCompleteness(p, docs) ==
    LET presentTypes == [i \in 1..Len(docs) |-> docs[i].document_type]
        Absent(type) == type \notin SeqRange(presentTypes)
        missing == SelectSeq(REQUIRED_DOCUMENTS, Absent)
        Wanted(type) == CONDITIONAL_DOCUMENTS(type, p) /\ Absent(type)
        optionalMissing == SelectSeq(ConditionalTypes, Wanted)
        totalRequired == Len(REQUIRED_DOCUMENTS) + Len(optionalMissing)
        Counted(type) ==
            type \in SeqRange(REQUIRED_DOCUMENTS) \union SeqRange(ConditionalTypes)
        totalPresent == Len(SelectSeq(presentTypes, Counted))
    IN  [is_complete |-> Len(missing) = 0 /\ Len(optionalMissing) = 0,
         present |-> presentTypes,
         missing |-> missing,
         optional_missing |-> optionalMissing,
         completeness_percent |-> MathRound(totalPresent * 100, totalRequired)]

(***************************************************************************)
(* Compliance                                                              *)
(***************************************************************************)
\* variant: the deadline day itself is flagged
validateBill3421_inclusive(p, purchaseDate, t) ==
    LET check == [applicable |-> FALSE, purchase_date |-> NoDate,
                  deadline_date |-> NoDate, construction_started |-> FALSE,
                  is_flagged |-> FALSE]
    IN  IF p.asset_type # "Land" THEN check
        ELSE IF purchaseDate = NoDate THEN [check EXCEPT !.applicable = TRUE]
        ELSE LET deadline == purchaseDate + 5
             IN  [check EXCEPT !.applicable = TRUE,
                               !.purchase_date = purchaseDate,
                               !.deadline_date = deadline,
                               !.is_flagged = (t >= deadline)]

\* new Date() is read inside the function; the clock value is the argument t
validateBill3421(p, purchaseDate, t) ==
    LET check == [applicable |-> FALSE, purchase_date |-> NoDate,
                  deadline_date |-> NoDate, construction_started |-> FALSE,
                  is_flagged |-> FALSE]
    IN  IF p.asset_type # "Land" THEN check
        ELSE IF purchaseDate = NoDate THEN [check EXCEPT !.applicable = TRUE]
        ELSE LET deadline == purchaseDate + 5
             IN  [check EXCEPT !.applicable = TRUE,
                               !.purchase_date = purchaseDate,
                               !.deadline_date = deadline,
                               !.is_flagged = (t > deadline)]

VNA_EXEMPT_NATIONALITIES == {"MA"}

\* variant: agricultural zoning escalates delay and cost without requiring
\* the authorization
validateVNA_zaNotRequired(vnaParams) ==
    LET check == [required |-> FALSE,
                  buyer_nationality |-> vnaParams.buyerNationality,
                  property_is_rural |-> vnaParams.propertyIsRural,
                  estimated_delay_months |-> 12,
                  estimated_cost_mad |-> 200000]
        rural == IF vnaParams.propertyIsRural
                 THEN [check EXCEPT !.required = TRUE] ELSE check
    IN  IF vnaParams.buyerNationality \in VNA_EXEMPT_NATIONALITIES THEN check
        ELSE IF vnaParams.propertyZoning = "ZA"
        THEN [rural EXCEPT !.estimated_delay_months = 18,
                           !.estimated_cost_mad = 250000]
        ELSE rural

validateVNA(vnaParams) ==
    LET check == [required |-> FALSE,
                  buyer_nationality |-> vnaParams.buyerNationality,
                  property_is_rural |-> vnaParams.propertyIsRural,
                  estimated_delay_months |-> 12,
                  estimated_cost_mad |-> 200000]
        rural == IF vnaParams.propertyIsRural
                 THEN [check EXCEPT !.required = TRUE] ELSE check
    IN  IF vnaParams.buyerNationality \in VNA_EXEMPT_NATIONALITIES THEN check
        ELSE IF vnaParams.propertyZoning = "ZA"
        THEN [rural EXCEPT !.required = TRUE,
                           !.estimated_delay_months = 18,
                           !.estimated_cost_mad = 250000]
        ELSE rural

\* Array.prototype.find: the first quitus_fiscal document, 0 if there is none
FindQuitus(docs) ==
    LET hits == {i \in 1..Len(docs) : docs[i].document_type = "quitus_fiscal"}
    IN  IF hits = {} THEN 0 ELSE CHOOSE i \in hits : \A j \in hits : i <= j

validateTaxGate(docs) ==
    LET i == FindQuitus(docs)
        present == i # 0
        verified == IF i # 0 THEN docs[i].qr_code_verified ELSE FALSE
    IN  [quitus_fiscal_present |-> present,
         qr_verified |-> verified,
         is_high_risk |-> ~(present /\ verified)]

validateSeismic(p) ==
    LET yearBuilt == p.year_built
        shs == p.structural_health_score
        pre_2023 == IF yearBuilt # 0 THEN yearBuilt < 2023 ELSE FALSE
        \* shs?.seismic_chaining ?? undefined: null becomes undefined
        chaining == IF shs.present /\ shs.seismic_chaining # "null"
                    THEN shs.seismic_chaining ELSE "undefined"
        penalty == IF pre_2023 /\ chaining = "false" THEN 15
                   ELSE IF pre_2023 /\ chaining = "null" THEN 8
                   ELSE 0
    IN  [year_built |-> yearBuilt,
         pre_2023 |-> pre_2023,
         seismic_chaining_present |-> chaining,
         rps_2011_compliant |-> shs.present /\ shs.rps_2011_compliant,
         rps_2026_compliant |-> shs.present /\ shs.rps_2026_compliant,
         value_penalty_percent |-> IF p.asset_type = "Land" THEN 0 ELSE penalty]

\* variant: expired documents only downgrade an otherwise clean audit
overallStatus_criticalFirst(checkFlags, expiredDocs) ==
    LET IsCritical(f) == f.severity = "critical"
        IsWarning(f) == f.severity = "warning"
        criticalFlags == SelectSeq(checkFlags, IsCritical)
        warningFlags == SelectSeq(checkFlags, IsWarning)
    IN  IF Len(criticalFlags) > 0 THEN "non_compliant"
        ELSE IF Len(expiredDocs) > 0 THEN "expired"
        ELSE IF Len(warningFlags) > 0 THEN "pending_review"
        ELSE "compliant"

\* overall status of an audit from the flags of the four checks and the
\* expired documents
overallStatus(checkFlags, expiredDocs) ==
    LET IsCritical(f) == f.severity = "critical"
        IsWarning(f) == f.severity = "warning"
        criticalFlags == SelectSeq(checkFlags, IsCritical)
        warningFlags == SelectSeq(checkFlags, IsWarning)
        status == IF Len(criticalFlags) > 0 THEN "non_compliant"
                  ELSE IF Len(warningFlags) > 0 THEN "pending_review"
                  ELSE "compliant"
    IN  IF Len(expiredDocs) > 0 THEN "expired" ELSE status

\* a flag; impact_percent is in whole percent here, 0 when the flag has none
Flag(code, severity, impact) ==
    [code |-> code, severity |-> severity, impact_percent |-> impact]

IsExpired(d, t) == d.expiry_date # NoDate /\ d.expiry_date < t

performComplianceAudit(p, docs, auditParams, t) ==
    LET bill3421 == validateBill3421(p, auditParams.purchaseDate, t)
        billFlags == IF bill3421.is_flagged
                     THEN <<Flag("BILL_34_21_EXCEEDED", "critical", -20)>> ELSE <<>>
        billRecs == IF bill3421.is_flagged THEN <<"consult_legal_counsel">> ELSE <<>>
        vna == validateVNA([buyerNationality |->
                                IF auditParams.buyerNationality = "" THEN "UNKNOWN"
                                ELSE auditParams.buyerNationality,
                            propertyIsRural |-> p.zoning_code = "ZA",
                            propertyZoning |-> p.zoning_code])
        vnaFlags == IF vna.required
                    THEN <<Flag("VNA_REQUIRED", "warning", -5)>> ELSE <<>>
        vnaRecs == IF vna.required
                   THEN <<"budget_vna_cost", "allow_12_18_months">> ELSE <<>>
        taxGate == validateTaxGate(docs)
        taxFlags == IF ~taxGate.is_high_risk THEN <<>>
                    ELSE IF ~taxGate.quitus_fiscal_present
                    THEN <<Flag("TAX_GATE_NO_QUITUS", "critical", -10)>>
                    ELSE IF ~taxGate.qr_verified
                    THEN <<Flag("TAX_GATE_NO_QR", "warning", -5)>>
                    ELSE <<>>
        taxRecs == IF ~taxGate.is_high_risk THEN <<>>
                   ELSE IF ~taxGate.quitus_fiscal_present
                   THEN <<"request_quitus_fiscal">>
                   ELSE IF ~taxGate.qr_verified
                   THEN <<"verify_quitus_qr">>
                   ELSE <<>>
        seismic == validateSeismic(p)
        seismicFlags ==
            IF seismic.value_penalty_percent > 0
            THEN <<Flag("SEISMIC_NON_COMPLIANT",
                        IF seismic.value_penalty_percent >= 15
                        THEN "critical" ELSE "warning",
                        -seismic.value_penalty_percent)>>
            ELSE <<>>
        seismicRecs == IF seismic.value_penalty_percent > 0
                       THEN <<"commission_structural_report">> ELSE <<>>
        checkFlags == billFlags \o vnaFlags \o taxFlags \o seismicFlags
        Expired(d) == IsExpired(d, t)
        expiredDocs == SelectSeq(docs, Expired)
    IN  [overall_status |-> overallStatus(checkFlags, expiredDocs),
         bill_34_21 |-> bill3421,
         vna |-> vna,
         tax_gate |-> taxGate,
         seismic |-> seismic,
         flags |-> IF Len(expiredDocs) > 0
                   THEN Append(checkFlags, Flag("DOCUMENTS_EXPIRED", "critical", 0))
                   ELSE checkFlags,
         recommendations |-> billRecs \o vnaRecs \o taxRecs \o seismicRecs]

(***************************************************************************)
(* Inputs                                                                  *)
(***************************************************************************)
AssetTypes == {"Apartment", "Villa", "Land"}

NoSHS ==
    [present |-> FALSE, seismic_chaining |-> "null",
     rps_2011_compliant |-> FALSE, rps_2026_compliant |-> FALSE,
     humidity_score |-> Null, roof_life_years |-> Null,
     foundation_depth_cm |-> Null]

\* structural_health_score records of the valuation inputs
ValuationSHS ==
    {NoSHS} \cup
    [present : {TRUE}, seismic_chaining : {"true", "false", "null"},
     rps_2011_compliant : {FALSE}, rps_2026_compliant : BOOLEAN,
     humidity_score : {Null, 7, 8}, roof_life_years : {Null, 0, 5},
     foundation_depth_cm : {Null, 149, 150}]

\* structural_health_score records of the audit inputs
AuditSHS ==
    {NoSHS} \cup
    [present : {TRUE}, seismic_chaining : {"true", "false", "null"},
     rps_2011_compliant : {FALSE}, rps_2026_compliant : {FALSE},
     humidity_score : {Null}, roof_life_years : {Null},
     foundation_depth_cm : {Null}]

ValuationProperties ==
    [asset_type : AssetTypes, neighborhood : {""}, gps_km : {0},
     terrain_size_m2 : {0}, built_size_m2 : {0},
     year_built : {0, 2015, 2023},
     market_price : {0, 100000, 1000000},
     zoning_code : {""},
     structural_health_score : ValuationSHS,
     bill_34_21_flagged : BOOLEAN, vna_required : BOOLEAN,
     tax_gate_passed : BOOLEAN, is_verified : BOOLEAN,
     distance_grand_stade : {Null}, distance_tgv_station : {Null},
     distance_airport : {Null}]

AuditProperties ==
    [asset_type : AssetTypes, neighborhood : {""}, gps_km : {0},
     terrain_size_m2 : {0}, built_size_m2 : {0},
     year_built : {0, 2015, 2023},
     market_price : {1000000},
     zoning_code : {"", "GH2", "ZA"},
     structural_health_score : AuditSHS,
     bill_34_21_flagged : {FALSE}, vna_required : {FALSE},
     tax_gate_passed : {TRUE}, is_verified : {FALSE},
     distance_grand_stade : {Null}, distance_tgv_station : {Null},
     distance_airport : {Null}]

\* infrastructure points: a station at the property (+7.5%), a discounting
\* industrial zone 2 km away (-0.6%), a stadium outside its radius
InfraCatalog ==
    {[category |-> "tgv_station", gps_km |-> 0, impact_radius_km |-> 5,
      value_multiplier |-> 125],
     [category |-> "industrial_zone", gps_km |-> 2, impact_radius_km |-> 5,
      value_multiplier |-> 90],
     [category |-> "stadium", gps_km |-> 6, impact_radius_km |-> 5,
      value_multiplier |-> 120]}

DocKinds ==
    [document_type : {"quitus_fiscal", "plan_cadastral"},
     qr_code_verified : BOOLEAN,
     expiry_date : {NoDate, 6}]

AuditParams ==
    [purchaseDate : {NoDate, 1, 2}, buyerNationality : {"", "MA", "FR"}]

NoParams == [purchaseDate |-> NoDate, buyerNationality |-> ""]

NoResult ==
    [base_value |-> 0, forensic_value |-> 0, adjustments |-> <<>>,
     zoning_potential_value |-> Null, alpha_value |-> 0, alpha_percent |-> 0,
     risk_grade |-> "A", resilience_score |-> Null]

NoAudit ==
    [overall_status |-> "compliant",
     bill_34_21 |-> [applicable |-> FALSE, purchase_date |-> NoDate,
                     deadline_date |-> NoDate, construction_started |-> FALSE,
                     is_flagged |-> FALSE],
     vna |-> [required |-> FALSE, buyer_nationality |-> "",
              property_is_rural |-> FALSE, estimated_delay_months |-> 12,
              estimated_cost_mad |-> 200000],
     tax_gate |-> [quitus_fiscal_present |-> FALSE, qr_verified |-> FALSE,
                   is_high_risk |-> TRUE],
     seismic |-> [year_built |-> 0, pre_2023 |-> FALSE,
                  seismic_chaining_present |-> "undefined",
                  rps_2011_compliant |-> FALSE, rps_2026_compliant |-> FALSE,
                  value_penalty_percent |-> 0],
     flags |-> <<>>,
     recommendations |-> <<>>]

NoProperty ==
    [asset_type |-> "Apartment", neighborhood |-> "", gps_km |-> 0,
     terrain_size_m2 |-> 0, built_size_m2 |-> 0, year_built |-> 0,
     market_price |-> 0, zoning_code |-> "",
     structural_health_score |-> NoSHS,
     bill_34_21_flagged |-> FALSE, vna_required |-> FALSE,
     tax_gate_passed |-> TRUE, is_verified |-> FALSE,
     distance_grand_stade |-> Null, distance_tgv_station |-> Null,
     distance_airport |-> Null]

NoListing == [id |-> 0, asking_price |-> 0, asset_type |-> "Apartment"]

NoGap == [gap_value |-> 0, gap_percent |-> 0, verdict |-> "fair"]

NoGapAnalysis ==
    [listing |-> NoListing, forensic_price |-> 0, gap_value |-> 0,
     gap_percent |-> 0, verdict |-> "fair", opportunity_score |-> 50]

NoBatchResult ==
    [total_scraped |-> 0, total_processed |-> 0, total_errors |-> 0,
     opportunities_found |-> 0, baselines |-> <<>>, top_opportunities |-> <<>>]

NoVNAArgs ==
    [buyerNationality |-> "", propertyIsRural |-> FALSE, propertyZoning |-> ""]

\* the variables of the functions a specification does not exercise
IdleEngine ==
    /\ property = NoProperty
    /\ infrastructurePoints = <<>>
    /\ documents = <<>>
    /\ params = NoParams
    /\ now = 0
    /\ result = NoResult
    /\ audit = NoAudit

IdleZoning == potential = Null

IdleAlpha ==
    /\ properties = <<>>
    /\ minAlphaPercent = Null
    /\ opportunities = <<>>

IdleGap ==
    /\ listing = NoListing
    /\ forensicPrice = 0
    /\ marketPrice = 0
    /\ marketGap = NoGap
    /\ gapAnalysis = NoGapAnalysis

IdleBatch ==
    /\ listings = <<>>
    /\ getForensicPrice = <<>>
    /\ cursor = 1
    /\ gaps = <<>>
    /\ errors = 0
    /\ batchResult = NoBatchResult

IdleVNA ==
    /\ vnaArgs = NoVNAArgs
    /\ vnaCheck = NoAudit.vna

IdleRepeat ==
    /\ secondAudit = NoAudit
    /\ secondResult = NoResult

IdleInfra == infraBonus = Adjustment("infrastructure_proximity", 0, 0)

NoCompleteness ==
    [is_complete |-> FALSE, present |-> <<>>, missing |-> <<>>,
     optional_missing |-> <<>>, completeness_percent |-> 0]

IdleDedup == scraped = <<>> /\ unique = <<>>

IdleCompleteness == completeness = NoCompleteness

IdleCache ==
    /\ clock = 0
    /\ sheet = 1
    /\ cache = <<>>
    /\ readers = <<>>
    /\ writer = "idle"

(***************************************************************************)
(* Valuation of one property                                               *)
(***************************************************************************)
Init ==
    /\ property \in ValuationProperties
    /\ infrastructurePoints \in SeqUpTo(InfraCatalog, MaxPoints)
    /\ documents = <<>>
    /\ params = NoParams
    /\ now = 0
    /\ result = NoResult
    /\ audit = NoAudit
    /\ pc = "input"
    /\ IdleZoning /\ IdleAlpha /\ IdleGap /\ IdleBatch /\ IdleVNA
    /\ IdleRepeat /\ IdleInfra /\ IdleCache /\ IdleDedup /\ IdleCompleteness

Valuate ==
    /\ pc = "input"
    /\ result' = calculateFairMarketValue(property, infrastructurePoints)
    /\ pc' = "valued"
    /\ UNCHANGED <<property, infrastructurePoints, documents, params, now, audit>>
    /\ UNCHANGED <<zoningVars, alphaVars, gapVars, batchVars, vnaVars,
                   repeatVars, infraVars, cacheVars, dedupVars, completenessVars>>

Next == Valuate

Spec == Init /\ [][Next]_vars

(***************************************************************************)
(* Compliance audit of one property                                        *)
(***************************************************************************)
InitAudit ==
    /\ property \in AuditProperties
    /\ infrastructurePoints = <<>>
    /\ documents \in SeqUpTo(DocKinds, MaxDocs)
    /\ params \in AuditParams
    /\ now \in {6, 7}
    /\ result = NoResult
    /\ audit = NoAudit
    /\ pc = "input"
    /\ IdleZoning /\ IdleAlpha /\ IdleGap /\ IdleBatch /\ IdleVNA
    /\ IdleRepeat /\ IdleInfra /\ IdleCache /\ IdleDedup /\ IdleCompleteness

Audit ==
    /\ pc = "input"
    /\ audit' = performComplianceAudit(property, documents, params, now)
    /\ pc' = "audited"
    /\ UNCHANGED <<property, infrastructurePoints, documents, params, now, result>>
    /\ UNCHANGED <<zoningVars, alphaVars, gapVars, batchVars, vnaVars,
                   repeatVars, infraVars, cacheVars, dedupVars, completenessVars>>

NextAudit == Audit

SpecAudit == InitAudit /\ [][NextAudit]_vars

(***************************************************************************)
(* Zoning potential of one property, alone and inside the valuation        *)
(***************************************************************************)
\* a recognized and an unrecognized neighborhood, every code of the table and
\* one outside it, a stadium 4 km away
ZoningProperties ==
    [asset_type : AssetTypes, neighborhood : {"", "Medina", "Atlantis"},
     gps_km : {0},
     terrain_size_m2 : {0, 30, 5000}, built_size_m2 : {0},
     year_built : {0},
     market_price : {0, 70000, 1000000},
     zoning_code : {"", "XX"} \cup ZoningCodes,
     structural_health_score : {NoSHS},
     bill_34_21_flagged : {FALSE}, vna_required : {FALSE},
     tax_gate_passed : {TRUE}, is_verified : {FALSE},
     distance_grand_stade : {Null, 4}, distance_tgv_station : {Null},
     distance_airport : {Null}]

InitZoning ==
    /\ property \in ZoningProperties
    /\ infrastructurePoints = <<>>
    /\ documents = <<>>
    /\ params = NoParams
    /\ now = 0
    /\ result = NoResult
    /\ audit = NoAudit
    /\ pc = "input"
    /\ IdleZoning /\ IdleAlpha /\ IdleGap /\ IdleBatch /\ IdleVNA
    /\ IdleRepeat /\ IdleInfra /\ IdleCache /\ IdleDedup /\ IdleCompleteness

ComputePotential ==
    /\ pc = "input"
    /\ potential' = calculateZoningPotential(property)
    /\ pc' = "potential"
    /\ UNCHANGED <<engineVars, alphaVars, gapVars, batchVars, vnaVars,
                   repeatVars, infraVars, cacheVars, dedupVars, completenessVars>>

NextZoning == ComputePotential \/ Valuate

SpecZoning == InitZoning /\ [][NextZoning]_vars

(***************************************************************************)
(* Ranking of a list of properties by alpha                                *)
(***************************************************************************)
Land(terrain, code, neighborhood, price) ==
    [NoProperty EXCEPT !.asset_type = "Land", !.terrain_size_m2 = terrain,
                       !.zoning_code = code, !.neighborhood = neighborhood,
                       !.market_price = price]

\* alpha of exactly 20%, 40%, 1300%, -30% and 0% (no terrain size, code
\* outside the table), and the properties the first filter removes: no
\* market price, no zoning code, not Land
AlphaCatalog ==
    {Land(25, "GH2", "targa", 70000),
     Land(5000, "GH2", "", 10000000),
     Land(5000, "GH2", "", 1000000),
     Land(5000, "ZA", "", 1000000),
     Land(0, "GH2", "", 1000000),
     Land(5000, "XX", "", 1000000),
     Land(5000, "GH2", "", 0),
     Land(5000, "", "", 1000000),
     [Land(5000, "GH2", "", 1000000) EXCEPT !.asset_type = "Villa"]}

InitAlpha ==
    /\ properties \in SeqUpTo(AlphaCatalog, MaxProps)
    /\ minAlphaPercent \in {Null, -50, 0, 40}
    /\ opportunities = <<>>
    /\ pc = "input"
    /\ IdleEngine /\ IdleZoning /\ IdleGap /\ IdleBatch /\ IdleVNA
    /\ IdleRepeat /\ IdleInfra /\ IdleCache /\ IdleDedup /\ IdleCompleteness

Rank ==
    /\ pc = "input"
    /\ opportunities' = findAlphaOpportunities(properties, minAlphaPercent)
    /\ pc' = "ranked"
    /\ UNCHANGED <<properties, minAlphaPercent>>
    /\ UNCHANGED <<engineVars, zoningVars, gapVars, batchVars, vnaVars,
                   repeatVars, infraVars, cacheVars, dedupVars, completenessVars>>

NextAlpha == Rank

SpecAlpha == InitAlpha /\ [][NextAlpha]_vars

(***************************************************************************)
(* Market gap of one price pair and gap analysis of one listing            *)
(***************************************************************************)
\* <<forensic price, market price>>: gaps on, next to and between the
\* breakpoints -25%, -10%, 10% and 30%, gaps that do not round to two
\* decimals (33.33...%), and a listing without asking price
GapPairs ==
    {<<100000, m>> : m \in {0, 70000, 74900, 75000, 80000, 89996, 90000, 100000,
                            110000, 110004, 120000, 130000, 130100, 140000}}
    \cup {<<1000000, m>> : m \in {850000, 900000, 1000000, 1100000, 1150000,
                                  1200000}}
    \cup {<<30000, m>> : m \in {0, 20000, 30000, 40000, 70000}}

\* the listing asks the market price of the pair
InitGap ==
    /\ \E pair \in GapPairs, assetType \in AssetTypes :
           /\ forensicPrice = pair[1]
           /\ marketPrice = pair[2]
           /\ listing = [id |-> 1, asking_price |-> pair[2],
                         asset_type |-> assetType]
    /\ marketGap = NoGap
    /\ gapAnalysis = NoGapAnalysis
    /\ pc = "input"
    /\ IdleEngine /\ IdleZoning /\ IdleAlpha /\ IdleBatch /\ IdleVNA
    /\ IdleRepeat /\ IdleInfra /\ IdleCache /\ IdleDedup /\ IdleCompleteness

ComputeMarketGap ==
    /\ pc = "input"
    /\ marketGap' = calculateMarketGap(forensicPrice, marketPrice)
    /\ pc' = "gap"
    /\ UNCHANGED <<listing, forensicPrice, marketPrice, gapAnalysis>>
    /\ UNCHANGED <<engineVars, zoningVars, alphaVars, batchVars, vnaVars,
                   repeatVars, infraVars, cacheVars, dedupVars, completenessVars>>

AnalyzeGap ==
    /\ pc = "gap"
    /\ gapAnalysis' = analyzeGap(listing, forensicPrice)
    /\ pc' = "analyzed"
    /\ UNCHANGED <<listing, forensicPrice, marketPrice, marketGap>>
    /\ UNCHANGED <<engineVars, zoningVars, alphaVars, batchVars, vnaVars,
                   repeatVars, infraVars, cacheVars, dedupVars, completenessVars>>

NextGap == ComputeMarketGap \/ AnalyzeGap

SpecGap == InitGap /\ [][NextGap]_vars

(***************************************************************************)
(* processBatch: one step per listing, then the summary                    *)
(***************************************************************************)
\* getForensicPrice(listings[i]) rejects
Rejects(i) == getForensicPrice[i] = Null

\* listings without asking price, 30% under and at the forensic price; the
\* lookup of each listing either rejects or resolves to 100,000
InitBatch ==
    /\ \E n \in 0..MaxListings :
           \E prices \in [1..n -> {0, 70000, 100000}],
              types \in [1..n -> {"Apartment", "Land"}] :
               /\ listings = [i \in 1..n |-> [id |-> i,
                                               asking_price |-> prices[i],
                                               asset_type |-> types[i]]]
               /\ getForensicPrice \in [1..n -> {Null, 100000}]
    /\ cursor = 1
    /\ gaps = <<>>
    /\ errors = 0
    /\ batchResult = NoBatchResult
    /\ pc = "loop"
    /\ IdleEngine /\ IdleZoning /\ IdleAlpha /\ IdleGap /\ IdleVNA
    /\ IdleRepeat /\ IdleInfra /\ IdleCache /\ IdleDedup /\ IdleCompleteness

\* variant: the rejection is not caught and ends processBatch
LookupRejected_uncaught ==
    /\ pc = "loop"
    /\ cursor <= Len(listings)
    /\ Rejects(cursor)
    /\ pc' = "rejected"
    /\ UNCHANGED <<listings, getForensicPrice, cursor, gaps, errors, batchResult>>
    /\ UNCHANGED <<engineVars, zoningVars, alphaVars, gapVars, vnaVars,
                   repeatVars, infraVars, cacheVars, dedupVars, completenessVars>>

\* the awaited lookup rejects: catch { errors++ }
LookupRejected ==
    /\ pc = "loop"
    /\ cursor <= Len(listings)
    /\ Rejects(cursor)
    /\ errors' = errors + 1
    /\ cursor' = cursor + 1
    /\ UNCHANGED <<listings, getForensicPrice, gaps, batchResult, pc>>
    /\ UNCHANGED <<engineVars, zoningVars, alphaVars, gapVars, vnaVars,
                   repeatVars, infraVars, cacheVars, dedupVars, completenessVars>>

\* the awaited lookup resolves: the gap of the listing is pushed
LookupResolved ==
    /\ pc = "loop"
    /\ cursor <= Len(listings)
    /\ ~Rejects(cursor)
    /\ gaps' = Append(gaps, analyzeGap(listings[cursor], getForensicPrice[cursor]))
    /\ cursor' = cursor + 1
    /\ UNCHANGED <<listings, getForensicPrice, errors, batchResult, pc>>
    /\ UNCHANGED <<engineVars, zoningVars, alphaVars, gapVars, vnaVars,
                   repeatVars, infraVars, cacheVars, dedupVars, completenessVars>>

\* after the loop: baselines, top opportunities and the counts
Finish ==
    /\ pc = "loop"
    /\ cursor > Len(listings)
    /\ batchResult' = BatchSummary(listings, gaps, errors)
    /\ pc' = "batched"
    /\ UNCHANGED <<listings, getForensicPrice, cursor, gaps, errors>>
    /\ UNCHANGED <<engineVars, zoningVars, alphaVars, gapVars, vnaVars,
                   repeatVars, infraVars, cacheVars, dedupVars, completenessVars>>

NextBatch == LookupResolved \/ LookupRejected \/ Finish

SpecBatch == InitBatch /\ [][NextBatch]_vars

\* every lookup settles and the continuation of processBatch then runs
SpecBatchLive == SpecBatch /\ WF_vars(NextBatch)

(***************************************************************************)
(* Foreign authorization check, alone and inside the compliance audit      *)
(***************************************************************************)
\* exempt, foreign, unknown and empty nationalities; rural or not; with and
\* without agricultural zoning
VNAArgs ==
    [buyerNationality : {"MA", "FR", "US", "UNKNOWN", ""},
     propertyIsRural : BOOLEAN,
     propertyZoning : {"", "ZA", "GH2", "SD1"}]

VNAProperties ==
    {p \in AuditProperties : /\ p.structural_health_score = NoSHS
                             /\ p.year_built = 0}

InitVNA ==
    /\ vnaArgs \in VNAArgs
    /\ vnaCheck = NoAudit.vna
    /\ property \in VNAProperties
    /\ infrastructurePoints = <<>>
    /\ documents = <<>>
    /\ params \in {a \in AuditParams : a.purchaseDate = NoDate}
    /\ now = 6
    /\ result = NoResult
    /\ audit = NoAudit
    /\ pc = "input"
    /\ IdleZoning /\ IdleAlpha /\ IdleGap /\ IdleBatch /\ IdleRepeat
    /\ IdleInfra /\ IdleCache /\ IdleDedup /\ IdleCompleteness

CheckVNA ==
    /\ pc = "input"
    /\ vnaCheck' = validateVNA(vnaArgs)
    /\ pc' = "vna"
    /\ UNCHANGED vnaArgs
    /\ UNCHANGED <<engineVars, zoningVars, alphaVars, gapVars, batchVars,
                   repeatVars, infraVars, cacheVars, dedupVars, completenessVars>>

NextVNA == CheckVNA \/ Audit

SpecVNA == InitVNA /\ [][NextVNA]_vars

(***************************************************************************)
(* Two calls with the same arguments, the clock running between them       *)
(***************************************************************************)
RepeatProperties ==
    {p \in AuditProperties : /\ p.structural_health_score = NoSHS
                             /\ p.year_built = 0
                             /\ p.zoning_code = ""}

InitRepeat ==
    /\ property \in RepeatProperties
    /\ infrastructurePoints = <<>>
    /\ documents \in SeqUpTo(DocKinds, MaxDocs)
    /\ params \in AuditParams
    /\ now = 6
    /\ result = NoResult
    /\ audit = NoAudit
    /\ pc = "input"
    /\ IdleZoning /\ IdleAlpha /\ IdleGap /\ IdleBatch /\ IdleVNA /\ IdleRepeat
    /\ IdleInfra /\ IdleCache /\ IdleDedup /\ IdleCompleteness

\* time passes; new Date() in a later call reads the later value
Tick ==
    /\ now < MaxNow
    /\ now' = now + 1
    /\ UNCHANGED <<property, infrastructurePoints, documents, params, result,
                   audit, pc>>
    /\ UNCHANGED <<zoningVars, alphaVars, gapVars, batchVars, vnaVars, repeatVars,
                   infraVars, cacheVars, dedupVars, completenessVars>>

AuditAgain ==
    /\ pc = "audited"
    /\ secondAudit' = performComplianceAudit(property, documents, params, now)
    /\ pc' = "reaudited"
    /\ UNCHANGED secondResult
    /\ UNCHANGED <<engineVars, zoningVars, alphaVars, gapVars, batchVars, vnaVars,
                   infraVars, cacheVars, dedupVars, completenessVars>>

ValuateAgain ==
    /\ pc = "valued"
    /\ secondResult' = calculateFairMarketValue(property, infrastructurePoints)
    /\ pc' = "revalued"
    /\ UNCHANGED secondAudit
    /\ UNCHANGED <<engineVars, zoningVars, alphaVars, gapVars, batchVars, vnaVars,
                   infraVars, cacheVars, dedupVars, completenessVars>>

NextRepeat == Audit \/ AuditAgain \/ Valuate \/ ValuateAgain \/ Tick

SpecRepeat == InitRepeat /\ [][NextRepeat]_vars

(***************************************************************************)
(* Resilience score inside the valuation                                   *)
(***************************************************************************)
\* distances in km: missing, zero, and on either side of each threshold
ResilienceProperties ==
    [asset_type : AssetTypes, neighborhood : {"", "Medina"}, gps_km : {0},
     terrain_size_m2 : {0}, built_size_m2 : {0},
     year_built : {0},
     market_price : {1000000},
     zoning_code : {"", "GH2", "SA1", "ZA"},
     structural_health_score : {NoSHS},
     bill_34_21_flagged : {FALSE}, vna_required : {FALSE},
     tax_gate_passed : {TRUE}, is_verified : {FALSE},
     distance_grand_stade : {Null, 0, 4, 5, 9, 10},
     distance_tgv_station : {Null, 0, 2, 3},
     distance_airport : {Null, 0, 7, 8}]

InitResilience ==
    /\ property \in ResilienceProperties
    /\ infrastructurePoints = <<>>
    /\ documents = <<>>
    /\ params = NoParams
    /\ now = 0
    /\ result = NoResult
    /\ audit = NoAudit
    /\ pc = "input"
    /\ IdleZoning /\ IdleAlpha /\ IdleGap /\ IdleBatch /\ IdleVNA /\ IdleRepeat
    /\ IdleInfra /\ IdleCache /\ IdleDedup /\ IdleCompleteness

NextResilience == Valuate

SpecResilience == InitResilience /\ [][NextResilience]_vars

(***************************************************************************)
(* Infrastructure proximity bonus of one property                          *)
(***************************************************************************)
InfraPoint(category, km, radius, multiplier) ==
    [category |-> category, gps_km |-> km, impact_radius_km |-> radius,
     value_multiplier |-> multiplier]

\* a point of every category and of an unknown one, a discounting one, one
\* without multiplier, one without radius; seen from km 0 and km 1 they are
\* at, inside, on and outside their radius
BonusCatalog ==
    {InfraPoint("tgv_station", 0, 5, 125),
     InfraPoint("industrial_zone", 2, 5, 90),
     InfraPoint("stadium", 6, 5, 120),
     InfraPoint("airport", 10, 10, 110),
     InfraPoint("highway", 1, 4, 0),
     InfraPoint("port", 0, 2, 150),
     InfraPoint("stadium", 0, 0, 120)}

InitInfra ==
    /\ \E km \in {0, 1}, price \in {0, 1000000} :
           property = [NoProperty EXCEPT !.gps_km = km, !.market_price = price]
    /\ infrastructurePoints \in SeqUpTo(BonusCatalog, MaxInfra)
    /\ documents = <<>>
    /\ params = NoParams
    /\ now = 0
    /\ result = NoResult
    /\ audit = NoAudit
    /\ infraBonus = Adjustment("infrastructure_proximity", 0, 0)
    /\ pc = "input"
    /\ IdleZoning /\ IdleAlpha /\ IdleGap /\ IdleBatch /\ IdleVNA /\ IdleRepeat
    /\ IdleCache /\ IdleDedup /\ IdleCompleteness

ComputeInfrastructureBonus ==
    /\ pc = "input"
    /\ infraBonus' = calculateInfrastructureBonus(property, infrastructurePoints)
    /\ pc' = "bonus"
    /\ UNCHANGED <<engineVars, zoningVars, alphaVars, gapVars, batchVars,
                   vnaVars, repeatVars, cacheVars, dedupVars, completenessVars>>

NextInfra == ComputeInfrastructureBonus

SpecInfra == InitInfra /\ [][NextInfra]_vars

(***************************************************************************)
(* Concurrent getProperties calls and one writer on the cache              *)
(***************************************************************************)
Readers == {"r1", "r2"}

\* a caller of getProperties: where its current call stands, the response
\* of the spreadsheet, the list returned, the newest spreadsheet version
\* whose write had resolved when the call started, the time the call
\* started, and the calls made
IdleReader ==
    [pc |-> "idle", response |-> 0, returned |-> 0, floor |-> 0, at |-> 0,
     calls |-> 0]

\* version written by the last write that has resolved
ResolvedVersion == IF writer = "applied" THEN sheet - 1 ELSE sheet

InitCache ==
    /\ clock = 0
    /\ sheet = 1
    /\ cache = <<>>
    /\ readers = [r \in Readers |-> IdleReader]
    /\ writer = "idle"
    /\ pc = "connector"
    /\ IdleEngine /\ IdleZoning /\ IdleAlpha /\ IdleGap /\ IdleBatch /\ IdleVNA
    /\ IdleRepeat /\ IdleInfra /\ IdleDedup /\ IdleCompleteness

\* Date.now() advances by half a lifetime
ClockTick ==
    /\ clock + 30 <= MaxClock
    /\ clock' = clock + 30
    /\ UNCHANGED <<sheet, cache, readers, writer, pc>>
    /\ UNCHANGED <<engineVars, zoningVars, alphaVars, gapVars, batchVars,
                   vnaVars, repeatVars, infraVars, dedupVars, completenessVars>>

\* getProperties up to its first await: a cached list is returned at once,
\* otherwise the read of the spreadsheet is requested
GetPropertiesStart(r) ==
    /\ readers[r].pc \in {"idle", "done"}
    /\ readers[r].calls < MaxCalls
    /\ LET cached == getCached(cache, clock)
       IN  /\ cache' = cached.cache
           /\ readers' = [readers EXCEPT ![r] =
                  [pc |-> IF cached.hit THEN "done" ELSE "fetching",
                   response |-> 0,
                   returned |-> IF cached.hit THEN cached.data ELSE 0,
                   floor |-> ResolvedVersion,
                   at |-> clock,
                   calls |-> @.calls + 1]]
    /\ UNCHANGED <<clock, sheet, writer, pc>>
    /\ UNCHANGED <<engineVars, zoningVars, alphaVars, gapVars, batchVars,
                   vnaVars, repeatVars, infraVars, dedupVars, completenessVars>>

\* the spreadsheet serves the read with its current contents
SheetResponds(r) ==
    /\ readers[r].pc = "fetching"
    /\ readers' = [readers EXCEPT ![r].pc = "responded", ![r].response = sheet]
    /\ UNCHANGED <<clock, sheet, cache, writer, pc>>
    /\ UNCHANGED <<engineVars, zoningVars, alphaVars, gapVars, batchVars,
                   vnaVars, repeatVars, infraVars, dedupVars, completenessVars>>

\* the awaited read resolves: setCache(cacheKey, properties); return properties
GetPropertiesResolved(r) ==
    /\ readers[r].pc = "responded"
    /\ cache' = setCache(readers[r].response, clock)
    /\ readers' = [readers EXCEPT ![r].pc = "done",
                                  ![r].returned = readers[r].response]
    /\ UNCHANGED <<clock, sheet, writer, pc>>
    /\ UNCHANGED <<engineVars, zoningVars, alphaVars, gapVars, batchVars,
                   vnaVars, repeatVars, infraVars, dedupVars, completenessVars>>

\* variant: the empty list of a failed read is cached
GetPropertiesFailed_cachesEmpty(r) ==
    /\ readers[r].pc = "fetching"
    /\ cache' = setCache(0, clock)
    /\ readers' = [readers EXCEPT ![r].pc = "done", ![r].returned = 0]
    /\ UNCHANGED <<clock, sheet, writer, pc>>
    /\ UNCHANGED <<engineVars, zoningVars, alphaVars, gapVars, batchVars,
                   vnaVars, repeatVars, infraVars, dedupVars, completenessVars>>

\* the awaited read rejects: catch { return [] }
GetPropertiesFailed(r) ==
    /\ readers[r].pc = "fetching"
    /\ readers' = [readers EXCEPT ![r].pc = "done", ![r].returned = 0]
    /\ UNCHANGED <<clock, sheet, cache, writer, pc>>
    /\ UNCHANGED <<engineVars, zoningVars, alphaVars, gapVars, batchVars,
                   vnaVars, repeatVars, infraVars, dedupVars, completenessVars>>

\* appendAudit or updateProperty: the spreadsheet applies the write
WriteApplied ==
    /\ writer = "idle"
    /\ sheet <= MaxWrites
    /\ sheet' = sheet + 1
    /\ writer' = "applied"
    /\ UNCHANGED <<clock, cache, readers, pc>>
    /\ UNCHANGED <<engineVars, zoningVars, alphaVars, gapVars, batchVars,
                   vnaVars, repeatVars, infraVars, dedupVars, completenessVars>>

\* the awaited write resolves: invalidateCache('properties'); return
WriteResolved ==
    /\ writer = "applied"
    /\ cache' = invalidateCache
    /\ writer' = "idle"
    /\ UNCHANGED <<clock, sheet, readers, pc>>
    /\ UNCHANGED <<engineVars, zoningVars, alphaVars, gapVars, batchVars,
                   vnaVars, repeatVars, infraVars, dedupVars, completenessVars>>

NextCache ==
    \/ ClockTick
    \/ \E r \in Readers : GetPropertiesStart(r)
    \/ \E r \in Readers : SheetResponds(r)
    \/ \E r \in Readers : GetPropertiesResolved(r)
    \/ \E r \in Readers : GetPropertiesFailed(r)
    \/ WriteApplied
    \/ WriteResolved

SpecCache == InitCache /\ [][NextCache]_vars

(***************************************************************************)
(* deduplicateListings on every short list of scraped listings             *)
(***************************************************************************)
\* two URLs, three size descriptions (two of them of the same similar
\* size), two scrape times
ScrapedCatalog ==
    {[source_url |-> u, asking_price |-> 1000000, terrain_size_m2 |-> sz[1],
      built_size_m2 |-> sz[2], neighborhood |-> "Gueliz", scraped_at |-> t] :
        u \in {"u1", "u2"}, sz \in {<<0, 100>>, <<100, 120>>, <<0, 120>>},
        t \in {1, 2}}

InitDedup ==
    /\ scraped \in SeqUpTo(ScrapedCatalog, MaxScraped)
    /\ unique = <<>>
    /\ pc = "scraped"
    /\ IdleEngine /\ IdleZoning /\ IdleAlpha /\ IdleGap /\ IdleBatch /\ IdleVNA
    /\ IdleRepeat /\ IdleInfra /\ IdleCache /\ IdleCompleteness

Deduplicate ==
    /\ pc = "scraped"
    /\ unique' = deduplicateListings(scraped)
    /\ pc' = "deduplicated"
    /\ UNCHANGED scraped
    /\ UNCHANGED <<engineVars, zoningVars, alphaVars, gapVars, batchVars,
                   vnaVars, repeatVars, infraVars, cacheVars, completenessVars>>

NextDedup == Deduplicate

SpecDedup == InitDedup /\ [][NextDedup]_vars

(***************************************************************************)
(* checkDocumentCompleteness on every short document list                  *)
(***************************************************************************)
DocumentTypes == REQUIRED_DOCUMENTS \o ConditionalTypes

\* document lists of up to MaxPresent documents, duplicates included, in
\* the order of DocumentTypes (the counts do not depend on the order)
DocumentLists ==
    {[i \in 1..Len(s) |->
         [document_type |-> DocumentTypes[s[i]], qr_code_verified |-> FALSE,
          expiry_date |-> NoDate]] :
        s \in {t \in SeqUpTo(1..Len(DocumentTypes), MaxPresent) :
                  \A i \in 1..Len(t) - 1 : t[i] <= t[i + 1]}}

InitCompleteness ==
    /\ \E asset \in {"Apartment", "Land"}, vna \in BOOLEAN :
           property = [NoProperty EXCEPT !.asset_type = asset,
                                         !.vna_required = vna]
    /\ documents \in DocumentLists
    /\ infrastructurePoints = <<>>
    /\ params = NoParams
    /\ now = 0
    /\ result = NoResult
    /\ audit = NoAudit
    /\ completeness = NoCompleteness
    /\ pc = "documents"
    /\ IdleZoning /\ IdleAlpha /\ IdleGap /\ IdleBatch /\ IdleVNA /\ IdleRepeat
    /\ IdleInfra /\ IdleCache /\ IdleDedup

CheckCompleteness ==
    /\ pc = "documents"
    /\ completeness' = checkDocumentCompleteness(property, documents)
    /\ pc' = "checked"
    /\ UNCHANGED <<engineVars, zoningVars, alphaVars, gapVars, batchVars,
                   vnaVars, repeatVars, infraVars, cacheVars, dedupVars>>

NextCompleteness == CheckCompleteness

SpecCompleteness == InitCompleteness /\ [][NextCompleteness]_vars

(***************************************************************************)
(* Vocabulary of the properties                                            *)
(***************************************************************************)
Valued == pc = "valued"

Audited == pc = "audited"

AdjustmentsOf(adjs, factor) == {i \in 1..Len(adjs) : adjs[i].factor = factor}

HasFactor(adjs, factor) == AdjustmentsOf(adjs, factor) # {}

HasAdjustment(adjs, factor, percent, value) ==
    \E i \in 1..Len(adjs) : adjs[i] = Adjustment(factor, percent, value)

GradeRank(g) ==
    CASE g = "A" -> 1 [] g = "B" -> 2 [] g = "C" -> 3
      [] g = "D" -> 4 [] g = "E" -> 5 [] g = "F" -> 6

\* the grade of a risk score given in whole percent units times PctScale
GradeOfScore(s) ==
    CASE s <= 10 * PctScale -> "A"
      [] s > 10 * PctScale /\ s <= 20 * PctScale -> "B"
      [] s > 20 * PctScale /\ s <= 35 * PctScale -> "C"
      [] s > 35 * PctScale /\ s <= 50 * PctScale -> "D"
      [] s > 50 * PctScale /\ s <= 70 * PctScale -> "E"
      [] OTHER -> "F"

\* sum of |impact_percent| over the negative adjustments listed in adjs
RECURSIVE NegativeMagnitude(_, _)
NegativeMagnitude(adjs, n) ==
    IF n = 0 THEN 0
    ELSE NegativeMagnitude(adjs, n - 1)
         + (IF adjs[n].impact_percent < 0 THEN 0 - adjs[n].impact_percent ELSE 0)

\* sum of impact_value over the adjustments listed in adjs
RECURSIVE ImpactTotal(_, _)
ImpactTotal(adjs, n) ==
    IF n = 0 THEN 0 ELSE ImpactTotal(adjs, n - 1) + adjs[n].impact_value

ExpectedScore ==
    (IF property.bill_34_21_flagged THEN 30 * PctScale ELSE 0)
    + (IF property.tax_gate_passed THEN 0 ELSE 20 * PctScale)
    + (IF property.vna_required THEN 10 * PctScale ELSE 0)
    + NegativeMagnitude(result.adjustments, Len(result.adjustments))
    - (IF property.is_verified THEN 15 * PctScale ELSE 0)

\* a building of the property's kind built before 2023
PreCodeBuilding ==
    /\ property.asset_type # "Land"
    /\ property.year_built # 0
    /\ property.year_built < 2023

\* seismic_chaining is explicitly false
ChainingFalse ==
    /\ property.structural_health_score.present
    /\ property.structural_health_score.seismic_chaining = "false"

\* seismic_chaining is unknown (null)
ChainingNull ==
    /\ property.structural_health_score.present
    /\ property.structural_health_score.seismic_chaining = "null"

SeismicGap == PreCodeBuilding /\ ChainingFalse

(***************************************************************************)
(* Properties                                                              *)
(***************************************************************************)
\* C1: a property whose only failure is the tax gate (deadline flag false,
\* foreign authorization not required, not verified, no seismic, structural
\* or infrastructure adjustment) has a risk score of exactly 20 and grade B.
C1_TaxGateOnlyScore20GradeB ==
    (/\ Valued
     /\ ~property.tax_gate_passed
     /\ ~property.bill_34_21_flagged
     /\ ~property.vna_required
     /\ ~property.is_verified
     /\ \A f \in {"seismic_compliance", "humidity", "roof_condition",
                  "foundation", "infrastructure_proximity"} :
            ~HasFactor(result.adjustments, f))
    => /\ riskScore(property, result.adjustments) = 20 * PctScale
       /\ result.risk_grade = "B"

C3_RiskGradeMonotone ==
    Valued =>
        /\ ~property.bill_34_21_flagged =>
               GradeRank(calculateFairMarketValue(
                   [property EXCEPT !.bill_34_21_flagged = TRUE],
                   infrastructurePoints).risk_grade)
               >= GradeRank(result.risk_grade)
        /\ property.tax_gate_passed =>
               GradeRank(calculateFairMarketValue(
                   [property EXCEPT !.tax_gate_passed = FALSE],
                   infrastructurePoints).risk_grade)
               >= GradeRank(result.risk_grade)

C3_Witness ==
    /\ Valued
    /\ ~property.bill_34_21_flagged
    /\ property.tax_gate_passed
    /\ result.risk_grade = "B"
    /\ calculateFairMarketValue([property EXCEPT !.bill_34_21_flagged = TRUE],
                                infrastructurePoints).risk_grade = "E"
    /\ calculateFairMarketValue([property EXCEPT !.tax_gate_passed = FALSE],
                                infrastructurePoints).risk_grade = "D"

\* C4: the overall status is the first match of: expired if a document has
\* an expiry date earlier than now; non_compliant if a flag is critical;
\* pending_review if a flag is a warning; compliant.
C4_StatusFirstMatch ==
    Audited =>
        audit.overall_status =
            IF \E i \in 1..Len(documents) :
                   /\ documents[i].expiry_date # NoDate
                   /\ documents[i].expiry_date < now
            THEN "expired"
            ELSE IF \E i \in 1..Len(audit.flags) :
                        audit.flags[i].severity = "critical"
            THEN "non_compliant"
            ELSE IF \E i \in 1..Len(audit.flags) :
                        audit.flags[i].severity = "warning"
            THEN "pending_review"
            ELSE "compliant"

C4_Witness ==
    /\ Audited
    /\ property.asset_type = "Land"
    /\ audit.overall_status = "expired"
    /\ \E i \in 1..Len(audit.flags) : audit.flags[i].code = "BILL_34_21_EXCEEDED"
    /\ \E i \in 1..Len(audit.flags) : audit.flags[i].code = "TAX_GATE_NO_QR"
    /\ \E i \in 1..Len(documents) : documents[i].expiry_date = NoDate

\* C5: validateSeismic gives a penalty of 15 for a pre-2023 building whose
\* seismic_chaining is false, 8 for one whose seismic_chaining is null, and
\* 0 in every other case, Land included.
C5_SeismicPenalty15_8_0 ==
    Audited =>
        audit.seismic.value_penalty_percent =
            IF PreCodeBuilding /\ ChainingFalse THEN 15
            ELSE IF PreCodeBuilding /\ ChainingNull THEN 8
            ELSE 0

\* C6: the -15% seismic adjustment (of the market price) is applied to a
\* pre-2023 building exactly when seismic_chaining is explicitly false; a
\* building whose seismic_chaining is null does not receive it.
C6_SeismicGapOnlyWhenFalse ==
    (Valued /\ PreCodeBuilding) =>
        (HasAdjustment(result.adjustments, "seismic_compliance", -15 * PctScale,
                       0 - (property.market_price \div 100) * 15)
         <=> ChainingFalse)

\* C7: for Land the result lists no seismic_compliance, humidity,
\* roof_condition or foundation adjustment, and the forensic value is the one
\* of the same property without year_built and structural health data.
C7_LandExclusion ==
    (Valued /\ property.asset_type = "Land") =>
        /\ \A f \in {"seismic_compliance", "humidity", "roof_condition",
                     "foundation"} : ~HasFactor(result.adjustments, f)
        /\ result.forensic_value =
               calculateFairMarketValue(
                   [property EXCEPT !.year_built = 0,
                                    !.structural_health_score = NoSHS],
                   infrastructurePoints).forensic_value

C7_Witness ==
    /\ Valued
    /\ property.asset_type = "Land"
    /\ property.year_built = 2015
    /\ property.market_price = 1000000
    /\ property.structural_health_score.present
    /\ property.structural_health_score.seismic_chaining = "false"
    /\ property.structural_health_score.humidity_score = 8
    /\ property.structural_health_score.roof_life_years = 0
    /\ property.structural_health_score.foundation_depth_cm = 149
    /\ result.adjustments = <<>>
    /\ result.forensic_value = 1000000

\* C8: a result lists at most one seismic_compliance adjustment; under the
\* seismic gap it is the -15% penalty even for an RPS-2026 compliant
\* building, and the +3% bonus is listed only when there is no seismic gap.
C8_SeismicEitherOr ==
    Valued =>
        /\ Cardinality(AdjustmentsOf(result.adjustments, "seismic_compliance")) <= 1
        /\ SeismicGap =>
               \A i \in AdjustmentsOf(result.adjustments, "seismic_compliance") :
                   result.adjustments[i].impact_percent = -15 * PctScale
        /\ SeismicGap => HasFactor(result.adjustments, "seismic_compliance")
        /\ (\E i \in AdjustmentsOf(result.adjustments, "seismic_compliance") :
                result.adjustments[i].impact_percent = 3 * PctScale)
           => ~SeismicGap

C8_Witness ==
    /\ Valued
    /\ SeismicGap
    /\ property.structural_health_score.rps_2026_compliant
    /\ property.market_price = 1000000
    /\ HasAdjustment(result.adjustments, "seismic_compliance", -15 * PctScale, -150000)

\* C9: for a building, a humidity adjustment of -8% is listed iff
\* humidity_score is present and > 7, a roof_condition adjustment of -5% iff
\* roof_life_years is present and < 5 (0 included), a foundation adjustment
\* of -6% iff foundation_depth_m is present and < 1.5; each once, with
\* impact_value = percent x market price (0 when the price is absent).
C9_StructuralRulesStack ==
    (Valued /\ property.asset_type # "Land") =>
        LET shs == property.structural_health_score
            adjs == result.adjustments
            base == property.market_price
            Rule(factor, percent, fires) ==
                /\ HasFactor(adjs, factor) <=> fires
                /\ Cardinality(AdjustmentsOf(adjs, factor)) <= 1
                /\ \A i \in AdjustmentsOf(adjs, factor) :
                       /\ adjs[i].impact_percent = percent * PctScale
                       /\ adjs[i].impact_value * 100 = percent * base
        IN  /\ Rule("humidity", -8,
                    shs.present /\ shs.humidity_score # Null /\ shs.humidity_score > 7)
            /\ Rule("roof_condition", -5,
                    shs.present /\ shs.roof_life_years # Null /\ shs.roof_life_years < 5)
            /\ Rule("foundation", -6,
                    shs.present /\ shs.foundation_depth_cm # Null
                    /\ shs.foundation_depth_cm < 150)

C9_Witness ==
    /\ Valued
    /\ property.asset_type = "Villa"
    /\ property.market_price = 1000000
    /\ property.structural_health_score.roof_life_years = 0
    /\ HasAdjustment(result.adjustments, "humidity", -8 * PctScale, -80000)
    /\ HasAdjustment(result.adjustments, "roof_condition", -5 * PctScale, -50000)
    /\ HasAdjustment(result.adjustments, "foundation", -6 * PctScale, -60000)

FactorOrder(factor) ==
    CASE factor = "seismic_compliance" -> 1
      [] factor = "humidity" -> 2
      [] factor = "roof_condition" -> 3
      [] factor = "foundation" -> 4
      [] factor = "bill_34_21" -> 5
      [] factor = "tax_gate" -> 6
      [] factor = "vna_requirement" -> 7
      [] factor = "infrastructure_proximity" -> 8

\* C10: the forensic value is never negative, it is max(0, base value + sum
\* of the impact values of the adjustments listed), and the adjustments are
\* listed in the order seismic, humidity, roof, foundation, deadline, tax
\* gate, foreign authorization, infrastructure.
C10_ForensicFlooredSum ==
    Valued =>
        LET adjs == result.adjustments
            total == result.base_value + ImpactTotal(adjs, Len(adjs))
        IN  /\ result.forensic_value >= 0
            /\ result.forensic_value = (IF total < 0 THEN 0 ELSE total)
            /\ \A i, j \in 1..Len(adjs) :
                   i < j => FactorOrder(adjs[i].factor) < FactorOrder(adjs[j].factor)

C10_Witness ==
    /\ Valued
    /\ property.market_price = 100000
    /\ Len(result.adjustments) = 8
    /\ result.base_value + ImpactTotal(result.adjustments, 8) < 0
    /\ result.forensic_value = 0

\* C11: each compliance penalty is taken from the base value of the
\* valuation: a flagged construction deadline costs 20% of it, a failed tax
\* gate 10% of it, and a required foreign authorization is listed at -5%
\* with a value of -(200,000 + 2% of it), whether the base value is the
\* market price or the neighborhood estimate.
C11_CompliancePenaltiesOfBaseValue ==
    Valued =>
        LET adjs == result.adjustments
            base == result.base_value
        IN  /\ property.bill_34_21_flagged =>
                   HasAdjustment(adjs, "bill_34_21", -20 * PctScale, -(base \div 5))
            /\ ~property.tax_gate_passed =>
                   HasAdjustment(adjs, "tax_gate", -10 * PctScale, -(base \div 10))
            /\ property.vna_required =>
                   HasAdjustment(adjs, "vna_requirement", -5 * PctScale,
                                 -(200000 + base \div 50))

PotentialComputed == pc = "potential"

C14_OptionalResultFields ==
    Valued =>
        LET zoned == /\ property.asset_type = "Land"
                     /\ property.zoning_code # ""
                     /\ property.terrain_size_m2 # 0
        IN  /\ (result.zoning_potential_value # Null) <=> zoned
            /\ ~zoned => (result.alpha_value = 0 /\ result.alpha_percent = 0)
            /\ (result.resilience_score # Null) <=> property.asset_type = "Apartment"

C14_Witness ==
    /\ Valued
    /\ property.asset_type = "Land"
    /\ property.zoning_code = "GH2"
    /\ property.terrain_size_m2 = 5000
    /\ property.market_price = 1000000
    /\ result.zoning_potential_value = 14000000
    /\ result.alpha_value = 13000000
    /\ result.alpha_percent = 1300 * PctScale
    /\ result.resilience_score = Null

Ranked == pc = "ranked"

\* alpha of a property against a threshold in percent, in thousands of MAD
AlphaAtLeast(p, threshold) ==
    ((calculateZoningPotential(p) - p.market_price) \div 1000) * 100
        >= threshold * (p.market_price \div 1000)

\* C15: findAlphaOpportunities returns exactly the input properties that are
\* Land with a zoning code and a market price and whose alpha percent is at
\* least the threshold (20 when omitted), none dropped or added, ordered by
\* non-increasing alpha percent.
C15_AlphaOpportunitiesExact ==
    Ranked =>
        LET threshold == IF minAlphaPercent = Null THEN 20 ELSE minAlphaPercent
            n == Len(properties)
            E == {i \in 1..n : /\ properties[i].asset_type = "Land"
                               /\ properties[i].zoning_code # ""
                               /\ properties[i].market_price # 0
                               /\ AlphaAtLeast(properties[i], threshold)}
            m == Len(opportunities)
            Price(k) == opportunities[k].property.market_price \div 10000
            Alpha(k) == opportunities[k].alpha_value \div 1000
        IN  /\ m = Cardinality(E)
            /\ \A k \in 1..m : \E i \in E : opportunities[k].property = properties[i]
            /\ \A i \in E :
                   Cardinality({k \in 1..m : opportunities[k].property = properties[i]})
                       = Cardinality({j \in E : properties[j] = properties[i]})
            /\ \A k \in 1..m :
                   opportunities[k].alpha_value
                       = calculateZoningPotential(opportunities[k].property)
                             - opportunities[k].property.market_price
            /\ \A k \in 1..(m - 1) : Alpha(k) * Price(k + 1) >= Alpha(k + 1) * Price(k)

\* the entry at exactly 20% is kept by the default threshold, behind a 40% one
C15_Witness ==
    /\ Ranked
    /\ minAlphaPercent = Null
    /\ Len(properties) = 3
    /\ properties[1].market_price = 70000
    /\ properties[2].asset_type = "Villa"
    /\ properties[3].market_price = 10000000
    /\ Len(opportunities) = 2
    /\ opportunities[1].property = properties[3]
    /\ opportunities[2].property = properties[1]
    /\ opportunities[2].alpha_value = 14000

GapComputed == pc \in {"gap", "analyzed"}

Analyzed == pc = "analyzed"

\* C16 as stated: for a forensic price f > 0 and a market price m,
\* calculateMarketGap returns the gap m - f and the gap percent
\* (m - f) / f x 100, with the verdict overpriced iff that percent is above
\* 10, underpriced iff it is below -10, fair otherwise.
C16_GapPercentExact ==
    GapComputed =>
        LET f == forensicPrice
            gap == marketPrice - forensicPrice
        IN  /\ marketGap.gap_value = gap
            /\ marketGap.gap_percent * f = gap * 100 * PctScale
            /\ marketGap.verdict = "overpriced" <=> marketGap.gap_percent > 10 * PctScale
            /\ marketGap.verdict = "underpriced" <=> marketGap.gap_percent < -10 * PctScale
            /\ marketGap.verdict \in {"overpriced", "underpriced", "fair"}

\* C16, amended: the gap is m - f, the gap percent returned is
\* (m - f) / f x 100 rounded to two decimals, and the verdict is decided on
\* the unrounded percent: overpriced iff above 10, underpriced iff below -10,
\* fair otherwise, so that exactly +10 and -10 are fair; f = 1,000,000 and
\* m = 1,150,000 give 15 and overpriced.
C16_GapPercentRounded ==
    GapComputed =>
        LET f == forensicPrice
            gap == marketPrice - forensicPrice
            d == marketGap.gap_percent * f - gap * 100 * PctScale
        IN  /\ marketGap.gap_value = gap
            /\ -f <= 2 * d /\ 2 * d <= f
            /\ marketGap.verdict = "overpriced" <=> gap * 10 > f
            /\ marketGap.verdict = "underpriced" <=> gap * 10 < -f
            /\ marketGap.verdict \in {"overpriced", "underpriced", "fair"}
            /\ (f = 1000000 /\ marketPrice = 1150000)
                   => (marketGap.gap_percent = 15 * PctScale
                       /\ marketGap.verdict = "overpriced")

\* a gap of 10.004% is overpriced and is returned as 10.00
C16_Witness ==
    /\ GapComputed
    /\ forensicPrice = 100000
    /\ marketPrice = 110004
    /\ marketGap.gap_value = 10004
    /\ marketGap.gap_percent = 10 * PctScale
    /\ marketGap.verdict = "overpriced"

\* gap percent g of a pair <<forensic, asking>> is at most that of another
GapAtMost(a, b) ==
    (a[2] - a[1]) * (b[1] \div 10000) <= (b[2] - b[1]) * (a[1] \div 10000)

\* C17: analyzeGap maps the gap percent g of a listing to one of five tiers
\* with fixed scores: g > 30 severely_overpriced/10, 10 < g <= 30
\* overpriced/30, -10 <= g <= 10 fair/50, -25 <= g < -10 underpriced/75,
\* g < -25 severely_underpriced/95; the score never increases with g, and the
\* tier agrees with the verdict of calculateMarketGap.
C17_FiveTiers ==
    Analyzed =>
        LET f == forensicPrice
            gap == listing.asking_price - forensicPrice
            v == gapAnalysis.verdict
            score == gapAnalysis.opportunity_score
        IN  /\ gap * 100 > 30 * f => (v = "severely_overpriced" /\ score = 10)
            /\ (gap * 100 > 10 * f /\ gap * 100 <= 30 * f)
                   => (v = "overpriced" /\ score = 30)
            /\ (gap * 100 >= -10 * f /\ gap * 100 <= 10 * f)
                   => (v = "fair" /\ score = 50)
            /\ (gap * 100 >= -25 * f /\ gap * 100 < -10 * f)
                   => (v = "underpriced" /\ score = 75)
            /\ gap * 100 < -25 * f => (v = "severely_underpriced" /\ score = 95)
            /\ \A other \in GapPairs :
                   GapAtMost(<<f, listing.asking_price>>, other)
                       => analyzeGap([listing EXCEPT !.asking_price = other[2]],
                                     other[1]).opportunity_score <= score
            /\ v \in {"overpriced", "severely_overpriced"}
                   <=> marketGap.verdict = "overpriced"
            /\ v \in {"underpriced", "severely_underpriced"}
                   <=> marketGap.verdict = "underpriced"

\* a gap of exactly 30% is overpriced, not severely overpriced
C17_Witness ==
    /\ Analyzed
    /\ forensicPrice = 100000
    /\ listing.asking_price = 130000
    /\ gapAnalysis.verdict = "overpriced"
    /\ gapAnalysis.opportunity_score = 30
    /\ gapAnalysis.gap_percent = 30 * PctScale

Batched == pc = "batched"

\* what C18 says of a finished batch
BatchTolerant ==
    LET n == Len(listings)
        failing == {i \in 1..n : getForensicPrice[i] = Null}
        top == batchResult.top_opportunities
    IN  /\ batchResult.total_errors = Cardinality(failing)
        /\ batchResult.total_scraped = n
        /\ batchResult.total_processed + batchResult.total_errors = n
        /\ Len(gaps) = n - Cardinality(failing)
        /\ \A i \in (1..n) \ failing :
               \E k \in 1..Len(gaps) : /\ gaps[k].listing = listings[i]
                                       /\ gaps[k].forensic_price = getForensicPrice[i]
        /\ \A k \in 1..Len(top) : top[k].listing.id \notin failing

\* C18: processBatch tolerates per-item failure: whichever listings
\* getForensicPrice rejects, the batch completes, every listing after a
\* failing one is still looked up and analyzed, total_errors is the number of
\* failing listings, total_processed + total_errors = total_scraped = number
\* of listings, and no failing listing is among top_opportunities.
C18_BatchToleratesFailures ==
    /\ <>Batched
    /\ [](Batched => BatchTolerant)

\* the first lookup fails, the later ones are analyzed and one is an
\* opportunity
C18_Witness ==
    /\ Batched
    /\ Len(listings) = 3
    /\ getForensicPrice[1] = Null
    /\ getForensicPrice[2] = 100000
    /\ getForensicPrice[3] = 100000
    /\ listings[1].asking_price = 70000
    /\ listings[3].asking_price = 70000
    /\ batchResult.total_errors = 1
    /\ batchResult.total_processed = 2
    /\ batchResult.opportunities_found = 1
    /\ batchResult.top_opportunities[1].listing.id = 3

\* C19: the tax gate is high-risk by default: is_high_risk is false exactly
\* when the document list holds a quitus_fiscal document with
\* qr_code_verified true, wherever it sits and whatever other documents
\* (other quitus_fiscal documents included) are present, and true in every
\* other case, the empty list included.
C19_TaxGateAnyVerifiedQuitus ==
    Audited =>
        (audit.tax_gate.is_high_risk = FALSE
            <=> \E i \in 1..Len(documents) :
                    /\ documents[i].document_type = "quitus_fiscal"
                    /\ documents[i].qr_code_verified)

VNAChecked == pc = "vna"

\* C20: validateVNA returns required = false with 12 months and 200,000 for
\* an exempt (MA) buyer on any land; for any other buyer required is true iff
\* the land is rural or zoned ZA, with 18 months and 250,000 exactly when the
\* zoning is ZA and 12 months and 200,000 otherwise. In performComplianceAudit
\* a missing buyer nationality is treated as non-exempt.
C20_ForeignAuthorization ==
    /\ VNAChecked =>
           LET za == vnaArgs.propertyZoning = "ZA"
           IN  IF vnaArgs.buyerNationality = "MA"
               THEN /\ vnaCheck.required = FALSE
                    /\ vnaCheck.estimated_delay_months = 12
                    /\ vnaCheck.estimated_cost_mad = 200000
               ELSE /\ vnaCheck.required <=> (vnaArgs.propertyIsRural \/ za)
                    /\ vnaCheck.estimated_delay_months = (IF za THEN 18 ELSE 12)
                    /\ vnaCheck.estimated_cost_mad = (IF za THEN 250000 ELSE 200000)
    /\ (Audited /\ params.buyerNationality = "") =>
           LET za == property.zoning_code = "ZA"
           IN  /\ audit.vna.required <=> za
               /\ audit.vna.buyer_nationality # "MA"
               /\ audit.vna.estimated_delay_months = (IF za THEN 18 ELSE 12)
               /\ audit.vna.estimated_cost_mad = (IF za THEN 250000 ELSE 200000)
               /\ za <=> \E i \in 1..Len(audit.flags) :
                             audit.flags[i].code = "VNA_REQUIRED"

\* a foreign buyer of non-rural land zoned ZA needs the authorization, at the
\* escalated delay and cost
C20_Witness ==
    /\ VNAChecked
    /\ vnaArgs.buyerNationality = "FR"
    /\ ~vnaArgs.propertyIsRural
    /\ vnaArgs.propertyZoning = "ZA"
    /\ vnaCheck.required
    /\ vnaCheck.estimated_delay_months = 18
    /\ vnaCheck.estimated_cost_mad = 250000

\* C21: validateBill3421 is applicable iff the asset is Land; a non-Land
\* property is never flagged and gets no dates; Land with a purchase date
\* gets the deadline purchase date + 5 years and is flagged iff the current
\* date is strictly later than the deadline; Land without a purchase date is
\* not flagged. A flagged check makes the audit emit a critical
\* BILL_34_21_EXCEEDED flag.
C21_LandDeadline ==
    Audited =>
        LET b == audit.bill_34_21
            land == property.asset_type = "Land"
            purchase == params.purchaseDate
        IN  /\ b.applicable <=> land
            /\ ~land => (/\ ~b.is_flagged
                         /\ b.purchase_date = NoDate
                         /\ b.deadline_date = NoDate)
            /\ (land /\ purchase # NoDate)
                   => (/\ b.deadline_date = purchase + 5
                       /\ b.is_flagged <=> now > purchase + 5)
            /\ (land /\ purchase = NoDate) => ~b.is_flagged
            /\ b.is_flagged
                   => \E i \in 1..Len(audit.flags) :
                          /\ audit.flags[i].code = "BILL_34_21_EXCEEDED"
                          /\ audit.flags[i].severity = "critical"

\* the day after the deadline is flagged
C21_Witness ==
    /\ Audited
    /\ property.asset_type = "Land"
    /\ params.purchaseDate = 1
    /\ now = 7
    /\ audit.bill_34_21.deadline_date = 6
    /\ audit.bill_34_21.is_flagged
    /\ audit.flags[1].code = "BILL_34_21_EXCEEDED"

\* C22: in every audit result each flag, the one for expired documents
\* included, is accompanied by at least one recommendation: recommendations
\* is non-empty whenever flags is non-empty and has at least as many entries
\* as flags.
C22_EveryFlagHasRecommendation ==
    Audited =>
        /\ audit.flags # <<>> => audit.recommendations # <<>>
        /\ Len(audit.recommendations) >= Len(audit.flags)

\* C23: every engine function is a function of its explicit inputs only: two
\* calls of performComplianceAudit (and of validateBill3421) with the same
\* property, document list, purchase date and buyer nationality return the
\* same result whenever each is made, and two calls of
\* calculateFairMarketValue with the same arguments return the same result.
C23_SameArgumentsSameResult ==
    /\ pc = "reaudited" => secondAudit = audit
    /\ pc = "revalued" => secondResult = result

\* C24: for every Apartment the resilience score is 50 + (25 if the stadium
\* is closer than 5 km, else 15 if closer than 10 km) + (15 if the station is
\* closer than 3 km) + (10 if the airport is closer than 8 km) - (10 in the
\* medina) + (10 for zoning GH2 or SA1), clamped to 0..100, for every known
\* distance d >= 0, d = 0 included; a missing distance contributes nothing.
C24_ResilienceScore ==
    (Valued /\ property.asset_type = "Apartment") =>
        LET Closer(d, km) == d # Null /\ d < km
            stadium == IF Closer(property.distance_grand_stade, 5) THEN 25
                       ELSE IF Closer(property.distance_grand_stade, 10) THEN 15
                       ELSE 0
            station == IF Closer(property.distance_tgv_station, 3) THEN 15 ELSE 0
            airport == IF Closer(property.distance_airport, 8) THEN 10 ELSE 0
            medina == IF property.neighborhood = "Medina" THEN 10 ELSE 0
            zoning == IF property.zoning_code \in {"GH2", "SA1"} THEN 10 ELSE 0
            score == 50 + stadium + station + airport - medina + zoning
        IN  result.resilience_score
                = (IF score > 100 THEN 100 ELSE IF score < 0 THEN 0 ELSE score)

BonusComputed == pc = "bonus"

\* (multiplier - 1) x (1 - d/r) x weight of the points up to the n-th that
\* are within their radius, in millionths
RECURSIVE ExpectedBonus(_, _, _)
ExpectedBonus(km, points, n) ==
    IF n = 0 THEN 0
    ELSE LET point == points[n]
             d == IF km < point.gps_km THEN point.gps_km - km
                  ELSE km - point.gps_km
             r == point.impact_radius_km
             weight == CASE point.category = "tgv_station" -> 30
                         [] point.category = "stadium" -> 25
                         [] point.category = "highway" -> 15
                         [] point.category = "airport" -> 20
                         [] OTHER -> 10
             multiplier == IF point.value_multiplier = 0 THEN 110
                           ELSE point.value_multiplier
         IN  (IF r > 0 /\ d <= r
              THEN ((multiplier - 100) * weight * 100 * (r - d)) \div r
              ELSE 0)
             + ExpectedBonus(km, points, n - 1)

Started(r) == readers'[r].calls = readers[r].calls + 1

\* C26: a getProperties call that finds an entry stored at most CACHE_TTL
\* (60) seconds ago returns the stored list, keeps the entry and does not
\* contact the spreadsheet; a call that finds an entry stored more than 60
\* seconds ago deletes it and contacts the spreadsheet.
C26_CacheTTL ==
    [][\A r \in Readers :
          Started(r) /\ cache # <<>> =>
              IF clock - cache[1].timestamp <= 60
              THEN /\ readers'[r].pc = "done"
                   /\ readers'[r].returned = cache[1].data
                   /\ cache' = cache
              ELSE /\ readers'[r].pc = "fetching"
                   /\ cache' = <<>>]_vars

\* a call served from an entry exactly 60 seconds old
C26_Witness ==
    \E r \in Readers :
        /\ readers[r].pc = "done"
        /\ readers[r].response = 0
        /\ cache # <<>>
        /\ readers[r].returned = cache[1].data
        /\ readers[r].at - cache[1].timestamp = 60

\* C28: a getProperties call that starts after a write has resolved returns
\* a list read from the spreadsheet after that write (failed reads, which
\* return the empty list, aside).
C28_ReadersSeeTheWrite ==
    \A r \in Readers :
        readers[r].pc = "done" /\ readers[r].returned # 0 =>
            readers[r].returned >= readers[r].floor

\* C29: a failed read returns the empty list and leaves the cache as it
\* was; the empty list of a failure is never in the cache, and a call that
\* finds no entry contacts the spreadsheet.
C29_FailureNotCached ==
    [][/\ cache' # <<>> => cache'[1].data # 0
       /\ \A r \in Readers :
             /\ readers[r].pc = "fetching" /\ readers'[r].pc = "done" =>
                   readers'[r].returned = 0 /\ cache' = cache
             /\ Started(r) /\ cache = <<>> => readers'[r].pc = "fetching"]_vars

\* after a failed call, with nothing cached, the next call is reading the
\* spreadsheet again
C29_Witness ==
    /\ readers["r1"].pc = "done"
    /\ readers["r1"].response = 0
    /\ readers["r1"].returned = 0
    /\ cache = <<>>
    /\ readers["r2"].pc = "fetching"
    /\ readers["r2"].at >= readers["r1"].at

(***************************************************************************)
(* Deduplication and document completeness                                 *)
(***************************************************************************)
\* same asking price, size and neighborhood
Similar(a, b) ==
    /\ a.asking_price = b.asking_price
    /\ (IF a.terrain_size_m2 # 0 THEN a.terrain_size_m2 ELSE a.built_size_m2)
         = (IF b.terrain_size_m2 # 0 THEN b.terrain_size_m2
            ELSE b.built_size_m2)
    /\ a.neighborhood = b.neighborhood

\* C27: the output of deduplicateListings holds no two listings of the same
\* source_url and no two similar listings, and no input listing similar to
\* an output listing was scraped later than it.
C27_KeepsMostRecentSimilar ==
    pc = "deduplicated" =>
        /\ \A i, j \in 1..Len(unique) :
              i # j => /\ unique[i].source_url # unique[j].source_url
                       /\ ~Similar(unique[i], unique[j])
        /\ \A i \in 1..Len(unique), k \in 1..Len(scraped) :
              Similar(unique[i], scraped[k]) =>
                  scraped[k].scraped_at <= unique[i].scraped_at

\* C30: completeness_percent lies between 0 and 100, and is 100 only when
\* no required document and no conditional document that applies to the
\* property is missing (is_complete).
C30_CompletenessPercent ==
    pc = "checked" =>
        /\ completeness.completeness_percent >= 0
        /\ completeness.completeness_percent <= 100
        /\ completeness.completeness_percent = 100 =>
              /\ completeness.is_complete
              /\ \A i \in 1..Len(REQUIRED_DOCUMENTS) :
                    \E d \in 1..Len(documents) :
                        documents[d].document_type = REQUIRED_DOCUMENTS[i]

====
